---- MODULE Spec2Model ----
(***************************************************************************)
(* A model of the command.js parser combinators.  A parser is a pure       *)
(* function of (input, success) that returns a list of Success objects and *)
(* at most one Failure.  Parsers are represented as syntax trees whose     *)
(* nodes carry the name of the combinator that built them; Parse applies   *)
(* such a tree to an input and a starting Success the way the closure the  *)
(* combinator returns does.                                                *)
(*                                                                         *)
(* JavaScript strings are sequences of one-character strings.  Witnesses   *)
(* are tagged records so that strings, arrays, null and the results of     *)
(* caller-supplied functions can be told apart.                            *)
(***************************************************************************)
EXTENDS Integers, Sequences, FiniteSets, TLC

VARIABLES parser, alphabet, examples, input, start, result, unnormalized,
          normalized, earlier, before, after, popup, finished, event,
          defaultsCache, clock, requests, call, xhrs, handled, retried,
          failure1, failure2, merged, stack

vars ==
  <<parser, alphabet, examples, input, start, result, unnormalized, normalized,
    earlier, before, after, popup, finished, event,
    defaultsCache, clock, requests, call, xhrs, handled, retried,
    failure1, failure2, merged, stack>>

\* The command line: the text before and after the caret, the completions
\* popped up, the witnesses given to processor.finish by the last key, and
\* the last key with the text it found.
commandLine == <<before, after, popup, finished, event>>

\* What is exchanged with the server: the cache of default values with the
\* time, the requests for defaults and the last call that may have issued
\* one; the requests sendCommand made, the handler calls and the number of
\* calls of a retry function.
server == <<defaultsCache, clock, requests, call, xhrs, handled, retried>>

\* Two failures that parsers returned, and what mergeFailures made of them.
merging == <<failure1, failure2, merged>>

(***************************************************************************)
(* Strings                                                                 *)
(***************************************************************************)

Lowercase ==
  << "a", "b", "c", "d", "e", "f", "g", "h", "i", "j", "k", "l", "m",
     "n", "o", "p", "q", "r", "s", "t", "u", "v", "w", "x", "y", "z" >>

Uppercase ==
  << "A", "B", "C", "D", "E", "F", "G", "H", "I", "J", "K", "L", "M",
     "N", "O", "P", "Q", "R", "S", "T", "U", "V", "W", "X", "Y", "Z" >>

\* UTF-16 code units of the characters used, the order Array.sort() uses:
\* " " is 32, "," is 44, "A" to "Z" are 65 to 90 and "a" to "z" are 97 to
\* 122.
CharCode ==
  [c \in {" ", ","} \cup {Lowercase[i] : i \in 1..Len(Lowercase)}
        \cup {Uppercase[i] : i \in 1..Len(Uppercase)} |->
     IF c = " " THEN 32
     ELSE IF c = "," THEN 44
     ELSE IF \E i \in 1..Len(Uppercase) : Uppercase[i] = c
       THEN 64 + (CHOOSE i \in 1..Len(Uppercase) : Uppercase[i] = c)
     ELSE 96 + (CHOOSE i \in 1..Len(Lowercase) : Lowercase[i] = c)]

Min(a, b) == IF a <= b THEN a ELSE b

Max(a, b) == IF a >= b THEN a ELSE b

\* string.slice(from): the rest of a string from a 0-based offset.
Slice(string, from) == SubSeq(string, from + 1, Len(string))

\* string.startsWith(prefix)
StartsWith(string, prefix) ==
  /\ Len(prefix) <= Len(string)
  /\ SubSeq(string, 1, Len(prefix)) = prefix

\* string1 < string2 in the order of Array.prototype.sort() without a
\* comparison function: by code unit, a prefix before its extensions.
RECURSIVE StringLess(_, _)
StringLess(string1, string2) ==
  IF string2 = <<>> THEN FALSE
  ELSE IF string1 = <<>> THEN TRUE
  ELSE IF Head(string1) = Head(string2)
    THEN StringLess(Tail(string1), Tail(string2))
  ELSE CharCode[Head(string1)] < CharCode[Head(string2)]

(***************************************************************************)
(* Witnesses, annotations, Success and Failure                             *)
(***************************************************************************)

WNull == [t |-> "null", s |-> <<>>, l |-> <<>>]

\* The value of a field that an object does not have.
WUndefined == [t |-> "undefined", s |-> <<>>, l |-> <<>>]

WString(string) == [t |-> "string", s |-> string, l |-> <<>>]

WArray(elements) == [t |-> "array", s |-> <<>>, l |-> elements]

\* The value of an uninterpreted caller-supplied function applied to
\* arguments.
WApply(function, arguments) == [t |-> function, s |-> <<>>, l |-> arguments]

\* [...w]: the elements an array or string spreads into.
Spread(w) ==
  IF w.t = "string" THEN [i \in 1..Len(w.s) |-> WString(<<w.s[i]>>)]
  ELSE w.l

\* Truthiness of a witness: null and "" are false values.
Truthy(w) == ~(w.t = "null" \/ (w.t = "string" /\ w.s = <<>>))

Context == "context"

Success(annotations, context, end, witness) ==
  [annotations |-> annotations, context |-> context, end |-> end,
   witness |-> witness]

SuccessInitial(context) == Success(<<>>, context, 0, WNull)

Failure(annotations, completions, end, pause) ==
  [annotations |-> annotations, completions |-> completions, end |-> end,
   pause |-> pause]

\* A parser's second value is a Failure or a false value; it is modelled as
\* a sequence holding the Failure, or nothing.
None == <<>>

Some(failure) == <<failure>>

Result(successes, failure) == [successes |-> successes, failure |-> failure]

prependAnnotations(failure, annotations) ==
  Failure(annotations \o failure.annotations, failure.completions,
          failure.end, failure.pause)

MinusInfinity == -1

RECURSIVE MaxEnd(_)
MaxEnd(successes) ==
  IF successes = <<>> THEN MinusInfinity
  ELSE Max(Head(successes).end, MaxEnd(Tail(successes)))

\* Math.max of no arguments is -Infinity; offsets are never negative, so -1
\* stands for it.
furthestSuccess(successes) == MaxEnd(successes)

(***************************************************************************)
(* parseConstant                                                           *)
(***************************************************************************)

RECURSIVE MatchLoop(_, _, _, _, _, _)
MatchLoop(string1, i, stop1, string2, j, start1) ==
  IF i < stop1 /\ string1[i + 1] = string2[j + 1]
  THEN MatchLoop(string1, i + 1, stop1, string2, j + 1, start1)
  ELSE i - start1

substringMatchForward(string1, start1, end1, string2, start2, end2) ==
  LET stop1 == start1 + Min(end1 - start1, end2 - start2)
  IN MatchLoop(string1, start1, stop1, string2, start2, start1)

\* applyConstant with the failure reported where the parser started instead
\* of where the match stopped.
applyConstantFailsAtStart(constant, witness, inp, success) ==
  LET size == Len(constant)
      start0 == success.end
      comparisonSize == Min(size, Len(inp) - start0)
      matchSize == substringMatchForward(
        inp, start0, start0 + comparisonSize, constant, 0, comparisonSize)
  IN IF matchSize = size
     THEN Result(<<Success(success.annotations, success.context,
                           start0 + size, witness)>>,
                 None)
     ELSE Result(<<>>,
                 Some(Failure(<<>>, <<Slice(constant, matchSize)>>,
                              start0, FALSE)))

\* applyConstant with the whole constant offered as the completion.
applyConstantCompletesWhole(constant, witness, inp, success) ==
  LET size == Len(constant)
      start0 == success.end
      comparisonSize == Min(size, Len(inp) - start0)
      matchSize == substringMatchForward(
        inp, start0, start0 + comparisonSize, constant, 0, comparisonSize)
  IN IF matchSize = size
     THEN Result(<<Success(success.annotations, success.context,
                           start0 + size, witness)>>,
                 None)
     ELSE Result(<<>>,
                 Some(Failure(<<>>, <<constant>>, start0 + matchSize, FALSE)))

\* applyConstant that resumes where the previous invocation started, as a
\* matcher that keeps its last position between calls would.
applyConstantSticky(constant, witness, inp, success) ==
  LET size == Len(constant)
      start0 == Max(success.end, start.end)
      comparisonSize == Min(size, Len(inp) - start0)
      matchSize == substringMatchForward(
        inp, start0, start0 + comparisonSize, constant, 0, comparisonSize)
  IN IF matchSize = size
     THEN Result(<<Success(success.annotations, success.context,
                           start0 + size, witness)>>,
                 None)
     ELSE Result(<<>>,
                 Some(Failure(<<>>, <<Slice(constant, matchSize)>>,
                              start0 + matchSize, FALSE)))

applyConstant(constant, witness, inp, success) ==
  LET size == Len(constant)
      start0 == success.end
      comparisonSize == Min(size, Len(inp) - start0)
      matchSize == substringMatchForward(
        inp, start0, start0 + comparisonSize, constant, 0, comparisonSize)
  IN IF matchSize = size
     THEN Result(<<Success(success.annotations, success.context,
                           start0 + size, witness)>>,
                 None)
     ELSE Result(<<>>,
                 Some(Failure(<<>>, <<Slice(constant, matchSize)>>,
                              start0 + matchSize, FALSE)))

parseConstant(constant, witness) ==
  [type |-> "constant", constant |-> constant, witness |-> witness]

(***************************************************************************)
(* Failures: normalizeCompletions, mergeAnnotations, mergeFailures         *)
(***************************************************************************)

\* Insert a string into a sorted list, after the entries not greater than it.
RECURSIVE InsertSorted(_, _)
InsertSorted(sorted, string) ==
  IF sorted = <<>> THEN <<string>>
  ELSE IF StringLess(string, Head(sorted)) THEN <<string>> \o sorted
  ELSE <<Head(sorted)>> \o InsertSorted(Tail(sorted), string)

\* completions.slice().sort()
RECURSIVE Sort(_)
Sort(strings) ==
  IF strings = <<>> THEN <<>>
  ELSE InsertSorted(Sort(SubSeq(strings, 1, Len(strings) - 1)),
                    strings[Len(strings)])

\* The forEach loop without i++: accumulator[i] stays the first element.
RECURSIVE NormalizeLoopFirst(_, _)
NormalizeLoopFirst(accumulator, rest) ==
  IF rest = <<>> THEN accumulator
  ELSE IF ~StartsWith(Head(rest), accumulator[1])
    THEN NormalizeLoopFirst(Append(accumulator, Head(rest)), Tail(rest))
  ELSE NormalizeLoopFirst(accumulator, Tail(rest))

\* The forEach loop of normalizeCompletions: accumulator[i] is the last
\* element of the accumulator.
RECURSIVE NormalizeLoop(_, _)
NormalizeLoop(accumulator, rest) ==
  IF rest = <<>> THEN accumulator
  ELSE IF ~StartsWith(Head(rest), accumulator[Len(accumulator)])
    THEN NormalizeLoop(Append(accumulator, Head(rest)), Tail(rest))
  ELSE NormalizeLoop(accumulator, Tail(rest))

\* normalizeCompletions without the sort.
normalizeCompletionsUnsorted(completions) ==
  IF Len(completions) = 0 THEN <<>>
  ELSE NormalizeLoop(SubSeq(completions, 1, 1), Tail(completions))

normalizeCompletions(completions) ==
  IF Len(completions) = 0 THEN <<>>
  ELSE LET sorted == Sort(completions)
       IN NormalizeLoop(SubSeq(sorted, 1, 1), Tail(sorted))

\* An Annotation object.  id stands for the object's identity: two objects
\* made by different evaluations of "new Annotation" differ in it.
Annotation(label, start0, end, id) ==
  [label |-> label, start |-> start0, end |-> end, id |-> id]

\* Add the elements of a list to an insertion-ordered Set, which holds an
\* object once.
RECURSIVE SetAddAll(_, _)
SetAddAll(set, elements) ==
  IF elements = <<>> THEN set
  ELSE SetAddAll(
         IF \E i \in 1..Len(set) : set[i] = Head(elements)
         THEN set ELSE Append(set, Head(elements)),
         Tail(elements))

\* label1[k1] != label2[k1] for the witness field: strings, null and
\* undefined compare by value, arrays and other objects by identity, and the
\* witnesses of two Annotation objects are different objects.
LooselyEqual(w1, w2, sameObject) ==
  IF w1.t \in {"string", "null", "undefined"}
  THEN w1 = w2 \/ {w1.t, w2.t} = {"null", "undefined"}
  ELSE sameObject /\ w1 = w2

\* Annotation.equals: same start, same end and labels with the same fields.
equals(annotation1, annotation2) ==
  LET label1 == annotation1.label
      label2 == annotation2.label
      labelsEqual ==
        /\ (label1.witness = WUndefined) = (label2.witness = WUndefined)
        /\ label1.tag = label2.tag
        /\ LooselyEqual(label1.witness, label2.witness,
                        annotation1.id = annotation2.id)
  IN /\ annotation1.start = annotation2.start
     /\ annotation1.end = annotation2.end
     /\ labelsEqual

mergeAnnotations(annotations1, annotations2) ==
  SetAddAll(SetAddAll(<<>>, annotations1), annotations2)

\* mergeFailures that returns the failure with the lesser end.
mergeFailuresLesser(f1, f2) ==
  IF f1 = None THEN f2
  ELSE IF f2 = None THEN f1
  ELSE LET e1 == f1[1].end
           e2 == f2[1].end
       IN IF e1 = e2
          THEN Some(Failure(
                 mergeAnnotations(f1[1].annotations, f2[1].annotations),
                 normalizeCompletions(f1[1].completions \o f2[1].completions),
                 e1,
                 f1[1].pause \/ f2[1].pause))
          ELSE IF e1 < e2 THEN f1 ELSE f2

mergeFailures(f1, f2) ==
  IF f1 = None THEN f2
  ELSE IF f2 = None THEN f1
  ELSE LET e1 == f1[1].end
           e2 == f2[1].end
       IN IF e1 = e2
          THEN Some(Failure(
                 mergeAnnotations(f1[1].annotations, f2[1].annotations),
                 normalizeCompletions(f1[1].completions \o f2[1].completions),
                 e1,
                 f1[1].pause \/ f2[1].pause))
          ELSE IF e1 < e2 THEN f2 ELSE f1

(***************************************************************************)
(* Caller-supplied functions.  The library receives them as parameters;    *)
(* the ones its own combinators pass are named after their text.           *)
(***************************************************************************)

RECURSIVE Reverse(_)
Reverse(list) ==
  IF list = <<>> THEN <<>> ELSE Append(Reverse(Tail(list)), Head(list))

\* Array.prototype.join(""): strings are concatenated, null counts as "".
RECURSIVE JoinStrings(_)
JoinStrings(elements) ==
  IF elements = <<>> THEN <<>>
  ELSE Head(elements).s \o JoinStrings(Tail(elements))

\* mergeWitnesses(w1, w2) of parseChain and parseThen.
MergeWitnesses(mergeWitnesses, w1, w2) ==
  CASE mergeWitnesses = "cons" -> WArray(<<w1>> \o Spread(w2))
    [] mergeWitnesses = "reverseCons" -> WArray(<<w2>> \o Spread(w1))
    [] mergeWitnesses = "second" -> w2
    [] OTHER -> WApply(mergeWitnesses, <<w1, w2>>)

\* mergeWitnesses(...witnesses) of parseSequence.
MergeAll(mergeWitnesses, witnesses) ==
  CASE mergeWitnesses = "join" -> WString(JoinStrings(witnesses))
    [] mergeWitnesses = "array" -> WArray(witnesses)
    [] mergeWitnesses = "nameAndValue" ->
         WArray(<<witnesses[2], witnesses[4]>>)
    [] OTHER -> WApply(mergeWitnesses, witnesses)

\* transform(witness) of parseTransform, mergeWitnesses(array) of parseStar.
Transform(transform, w) ==
  CASE transform = "join" -> WString(JoinStrings(w.l))
    [] transform = "identity" -> w
    [] transform = "nullUnlessA" ->
         IF w = WString(<<"a">>) THEN w ELSE WNull
    [] OTHER -> WApply(transform, <<w>>)

(***************************************************************************)
(* The combinators: the syntax tree each one builds, and what the closure  *)
(* it returns does with the results of the parsers it calls.               *)
(***************************************************************************)

parseAlternatives(parser1, parser2) ==
  [type |-> "alternatives", parser1 |-> parser1, parser2 |-> parser2]

\* AtOrAfter with > in place of >=.
StrictlyAfter(failure, furthest) ==
  IF failure # None /\ failure[1].end > furthest THEN failure ELSE None

\* f && f.end >= furthest && f
AtOrAfter(failure, furthest) ==
  IF failure # None /\ failure[1].end >= furthest THEN failure ELSE None

\* r1, r2: what parser1 and parser2 returned for the same input and success.
applyAlternatives(r1, r2) ==
  LET successes == r1.successes \o r2.successes
      furthest == furthestSuccess(successes)
  IN Result(successes,
            mergeFailures(AtOrAfter(r1.failure, furthest),
                          AtOrAfter(r2.failure, furthest)))

parseFail == [type |-> "fail"]

\* parseFail with the Failure constructor's default pause.
applyFailDefaultPause(inp, success) ==
  Result(<<>>, Some(Failure(<<>>, <<>>, success.end, Len(<<>>) = 0)))

applyFail(inp, success) ==
  Result(<<>>, Some(Failure(<<>>, <<>>, success.end, FALSE)))

\* parsers.reduce(parseAlternatives, parseFail)
RECURSIVE ReduceAlternatives(_, _)
ReduceAlternatives(accumulator, parsers) ==
  IF parsers = <<>> THEN accumulator
  ELSE ReduceAlternatives(parseAlternatives(accumulator, Head(parsers)),
                          Tail(parsers))

parseChoice(parsers) == ReduceAlternatives(parseFail, parsers)

\* chain is a description of the function from a Success to the next parser.
parseChain(mergeWitnesses, parser1, chain) ==
  [type |-> "chain", mergeWitnesses |-> mergeWitnesses, parser1 |-> parser1,
   chain |-> chain]

\* The for loop of parseChain, from the i-th success of parser1 on; acc
\* holds the successes pushed so far.
\* chained[i] is what chain(s1)(input, s1) returned for the i-th success s1.
RECURSIVE ChainLoop(_, _, _, _, _, _, _)
ChainLoop(mergeWitnesses, successes1, chained, i, failure, furthest, acc) ==
  IF i > Len(successes1)
  THEN Result(acc,
              IF failure # None /\ failure[1].end >= furthest
              THEN failure ELSE None)
  ELSE LET s1 == successes1[i]
           s2 == chained[i].successes
           f2 == chained[i].failure
           witness1 == s1.witness
       IN ChainLoop(
            mergeWitnesses, successes1, chained, i + 1,
            mergeFailures(
              failure,
              IF f2 = None THEN None
              ELSE Some(prependAnnotations(f2[1], s1.annotations))),
            Max(furthest, furthestSuccess(s2)),
            acc \o
              [k \in 1..Len(s2) |->
                 Success(s2[k].annotations, s2[k].context, s2[k].end,
                         MergeWitnesses(mergeWitnesses, witness1,
                                        s2[k].witness))])

\* applyChain with a loop that skips the first success of parser1.
applyChainFromSecond(mergeWitnesses, r1, chained) ==
  ChainLoop(mergeWitnesses, r1.successes, chained, 2, r1.failure, 0, <<>>)

applyChain(mergeWitnesses, r1, chained) ==
  ChainLoop(mergeWitnesses, r1.successes, chained, 1, r1.failure, 0, <<>>)

\* success => parser2
Always(parser2) == [kind |-> "always", parser |-> parser2]

parseThen(mergeWitnesses, parser1, parser2) ==
  parseChain(mergeWitnesses, parser1, Always(parser2))

parseEmpty(witness) == [type |-> "empty", witness |-> witness]

applyEmpty(witness, inp, success) ==
  Result(<<Success(success.annotations, success.context, success.end,
                   witness)>>,
         None)

\* new Success(s.annotations, s.context, s.end, witness)
transformWitness(success, witness) ==
  Success(success.annotations, success.context, success.end, witness)

\* parsers.reduce(reverseParseThen, parseEmpty([]))
RECURSIVE ReduceReverseThen(_, _)
ReduceReverseThen(accumulator, parsers) ==
  IF parsers = <<>> THEN accumulator
  ELSE ReduceReverseThen(parseThen("reverseCons", accumulator, Head(parsers)),
                         Tail(parsers))

parseSequence(mergeWitnesses, parsers) ==
  [type |-> "sequence", mergeWitnesses |-> mergeWitnesses,
   parsers |-> parsers,
   parser |-> ReduceReverseThen(parseEmpty(WArray(<<>>)), parsers)]

\* SequenceMerge without the reversal of the accumulated witnesses.
SequenceMergeUnreversed(mergeWitnesses, w) ==
  MergeAll(mergeWitnesses, Spread(w))

\* merge: w => mergeWitnesses(...w.slice().reverse())
SequenceMerge(mergeWitnesses, w) == MergeAll(mergeWitnesses, Reverse(Spread(w)))

\* r: what the folded parser returned.
applySequence(mergeWitnesses, r) ==
  Result([k \in 1..Len(r.successes) |->
            transformWitness(
              r.successes[k],
              SequenceMerge(mergeWitnesses, r.successes[k].witness))],
         r.failure)

parseTransform(parser0, transform) ==
  [type |-> "transform", parser |-> parser0, transform |-> transform]

applyTransform(transform, r) ==
  Result([k \in 1..Len(r.successes) |->
            transformWitness(
              r.successes[k],
              Transform(transform, r.successes[k].witness))],
         r.failure)

parseFilter(parser0) == [type |-> "filter", parser |-> parser0]

applyFilter(r, inp, success) ==
  LET truthy(s) == Truthy(s.witness)
      positives == SelectSeq(r.successes, truthy)
  IN IF Len(positives) = 0 /\ r.failure = None
     THEN Result(<<>>, Some(Failure(<<>>, <<>>, success.end, FALSE)))
     ELSE Result(positives, r.failure)

\* (input, success) => parseKleene()(input, success): the recursive use of
\* parseKleene, built only when it is invoked.
LazyKleene(parser0) == [type |-> "lazyKleene", parser |-> parser0]

\* parseKleene without the recursion: at most one repetition.
parseKleeneOnce(parser0) ==
  parseAlternatives(parseEmpty(WArray(<<>>)),
                    parseThen("cons", parser0, parseEmpty(WArray(<<>>))))

parseKleene(parser0) ==
  parseAlternatives(parseEmpty(WArray(<<>>)),
                    parseThen("cons", parser0, LazyKleene(parser0)))

parseStar(mergeWitnesses, parser0) ==
  parseTransform(parseKleene(parser0), mergeWitnesses)

\* (input, success) => parseRepeated()(input, success)
LazyRepeated(parseElement, parseSeparator) ==
  [type |-> "lazyRepeated", parseElement |-> parseElement,
   parseSeparator |-> parseSeparator]

\* parseRepeated that keeps the witness of a separator with those of the
\* elements.
parseRepeatedKeepsSeparators(parseElement, parseSeparator) ==
  parseThen("cons", parseElement,
            parseAlternatives(
              parseEmpty(WArray(<<>>)),
              parseThen("cons", parseSeparator,
                        LazyRepeated(parseElement, parseSeparator))))

parseRepeated(parseElement, parseSeparator) ==
  parseThen("cons", parseElement,
            parseAlternatives(
              parseEmpty(WArray(<<>>)),
              parseThen("second", parseSeparator,
                        LazyRepeated(parseElement, parseSeparator))))

parseSeparated(mergeWitnesses, parseElement, parseSeparator) ==
  parseTransform(
    parseAlternatives(parseEmpty(WArray(<<>>)),
                      parseRepeated(parseElement, parseSeparator)),
    mergeWitnesses)

parseNonEmpty(parser0) == [type |-> "nonEmpty", parser |-> parser0]

applyNonEmpty(r, inp, success) ==
  LET start0 == success.end
      isEmpty(s) == start0 = s.end
      isNonEmpty(s) == ~isEmpty(s)
      empties == SelectSeq(r.successes, isEmpty)
      nonEmpties == SelectSeq(r.successes, isNonEmpty)
  IN IF Len(empties) = 0
     THEN Result(r.successes, r.failure)
     ELSE Result(nonEmpties,
                 IF r.failure # None THEN r.failure
                 ELSE Some(Failure(<<>>, <<>>, start0, FALSE)))

parsePlus(mergeWitnesses, parser0) ==
  parseNonEmpty(parseStar(mergeWitnesses, parser0))

parseOptional(parser0, witness) ==
  parseChoice(<<parser0, parseEmpty(witness)>>)

\* annotations.reduce(mergeAnnotations, [])
RECURSIVE ReduceMergeAnnotations(_, _)
ReduceMergeAnnotations(accumulator, successes) ==
  IF successes = <<>> THEN accumulator
  ELSE ReduceMergeAnnotations(
         mergeAnnotations(accumulator, Head(successes).annotations),
         Tail(successes))

mergeSuccessAnnotations(successes) == ReduceMergeAnnotations(<<>>, successes)

\* makeCompletions(context, failure, start), for the functions the library
\* itself passes: none (withoutCompletions), a fixed list (as DIGIT_LIST),
\* a list offered only where the parser failed at its start (as
\* parseWhitespace), and the one of parseKeywordAndValue.
MakeCompletions(makeCompletions, context, failure, start0) ==
  CASE makeCompletions.kind = "fixed" -> makeCompletions.completions
    [] makeCompletions.kind = "atStart" ->
         IF failure # None /\ start0 = failure[1].end
         THEN makeCompletions.completions ELSE <<>>
    [] makeCompletions.kind = "keyword" ->
         IF failure = None THEN <<>>
         ELSE IF failure[1].end > start0
                 \/ Len(makeCompletions.preferredNames) = 0
         THEN failure[1].completions
         ELSE makeCompletions.preferredNames
    [] OTHER -> <<>>

parseWithCompletions(makeCompletions, parser0) ==
  [type |-> "withCompletions", makeCompletions |-> makeCompletions,
   parser |-> parser0]

\* parseWithCompletions that keeps the pause of the parser's failure.
applyWithCompletionsKeepsPause(makeCompletions, r, inp, success) ==
  LET completions ==
        MakeCompletions(makeCompletions, success.context, r.failure,
                        success.end)
  IN IF r.failure # None
     THEN Result(r.successes,
                 Some(Failure(r.failure[1].annotations, completions,
                              r.failure[1].end, r.failure[1].pause)))
     ELSE IF Len(completions) = 0
     THEN Result(r.successes, None)
     ELSE Result(r.successes,
                 Some(Failure(mergeSuccessAnnotations(r.successes),
                              completions,
                              furthestSuccess(r.successes),
                              FALSE)))

applyWithCompletions(makeCompletions, r, inp, success) ==
  LET completions ==
        MakeCompletions(makeCompletions, success.context, r.failure,
                        success.end)
  IN IF r.failure # None
     THEN Result(r.successes,
                 Some(Failure(r.failure[1].annotations, completions,
                              r.failure[1].end, FALSE)))
     ELSE IF Len(completions) = 0
     THEN Result(r.successes, None)
     ELSE Result(r.successes,
                 Some(Failure(mergeSuccessAnnotations(r.successes),
                              completions,
                              furthestSuccess(r.successes),
                              FALSE)))

parsePause(parser0) == [type |-> "pause", parser |-> parser0]

applyPause(r) ==
  Result(r.successes,
         IF r.failure = None THEN None
         ELSE Some(Failure(r.failure[1].annotations,
                           r.failure[1].completions,
                           r.failure[1].end,
                           TRUE)))

withoutCompletions(parser0) ==
  parseWithCompletions([kind |-> "none", completions |-> <<>>], parser0)

parseMaybe(parser0) == [type |-> "maybe", parser |-> parser0]

applyMaybe(r, inp, success) ==
  LET isNonNull(s) == s.witness.t # "null"
      nonNulls == SelectSeq(r.successes, isNonNull)
  IN IF Len(nonNulls) > 0
     THEN Result(nonNulls, r.failure)
     ELSE Result(<<>>,
                 IF r.failure # None THEN r.failure
                 ELSE Some(Failure(mergeSuccessAnnotations(r.successes),
                                   <<>>, success.end, FALSE)))

\* A regular expression of the form /[class]+/, as /\s+/ and /[0-9]+/: it
\* matches the longest non-empty run of characters of a class.
Regexp(class) == [class |-> class]

\* The length of the run of characters of a class in a string from an offset.
RECURSIVE RunLength(_, _, _)
RunLength(string, from, class) ==
  IF from < Len(string) /\ string[from + 1] \in class
  THEN 1 + RunLength(string, from + 1, class)
  ELSE 0

\* makeWitness(result): a fixed value (result => "whitespace") or the text
\* matched (result => result[0]).
MakeWitness(makeWitness, matched) ==
  IF makeWitness.kind = "fixed" THEN makeWitness.witness ELSE WString(matched)

parseRestrictedRegexp(makeWitness, regexp) ==
  [type |-> "restrictedRegexp", makeWitness |-> makeWitness,
   regexp |-> regexp]

applyRestrictedRegexp(makeWitness, regexp, inp, success) ==
  LET start0 == success.end
      size == RunLength(inp, start0, regexp.class)
  IN IF size > 0
     THEN Result(<<Success(success.annotations, success.context,
                           start0 + size,
                           MakeWitness(makeWitness,
                                       SubSeq(inp, start0 + 1, start0 + size)))>>,
                 None)
     ELSE Result(<<>>, Some(Failure(<<>>, <<>>, start0, TRUE)))

\* Parse a non-empty string of whitespace.
parseWhitespace ==
  parseWithCompletions(
    [kind |-> "atStart", completions |-> << <<" ">> >>],
    parseRestrictedRegexp(
      [kind |-> "fixed",
       witness |-> WString(<<"w", "h", "i", "t", "e", "s", "p", "a", "c", "e">>)],
      Regexp({" "})))

\* filterCompletions of the command line: a completion that is just a space
\* is dropped unless it is the only one.
filterCompletions(parser0) == [type |-> "filterCompletions", parser |-> parser0]

applyFilterCompletions(r) ==
  IF r.failure = None THEN Result(r.successes, r.failure)
  ELSE LET notSpace(c) == c # <<" ">>
           completions ==
             IF Len(r.failure[1].completions) = 1
             THEN r.failure[1].completions
             ELSE SelectSeq(r.failure[1].completions, notSpace)
       IN Result(r.successes,
                 Some(Failure(r.failure[1].annotations, completions,
                              r.failure[1].end, r.failure[1].pause)))

\* A label: its tag, and the witness once addWitness has added it.
Label(tag) == [tag |-> tag, witness |-> WUndefined]

addWitness(label, witness) == [label EXCEPT !.witness = witness]

annotate(label, parser0) ==
  [type |-> "annotate", label |-> label, parser |-> parser0]

\* annotate with an addWitness that stores the witness in the label object
\* itself: after successes.map(extend) every Annotation shares the label
\* with the last witness stored.
applyAnnotateInPlace(label, r, inp, success, path) ==
  LET stored ==
        IF r.successes = <<>> THEN label
        ELSE addWitness(label, r.successes[Len(r.successes)].witness)
      extend(k) ==
        LET s == r.successes[k]
        IN Success(<<Annotation(stored, success.end, s.end, path \o <<k>>)>>
                   \o s.annotations,
                   s.context, s.end, s.witness)
  IN Result([k \in 1..Len(r.successes) |-> extend(k)],
            IF r.failure = None THEN None
            ELSE Some(Failure(<<Annotation(stored, success.end,
                                           r.failure[1].end, path \o <<0>>)>>
                              \o r.failure[1].annotations,
                              r.failure[1].completions,
                              r.failure[1].end,
                              r.failure[1].pause)))

\* path identifies this invocation of the closure; it makes the identity of
\* the Annotation objects the invocation creates.
applyAnnotate(label, r, inp, success, path) ==
  LET extend(k) ==
        LET s == r.successes[k]
        IN Success(<<Annotation(addWitness(label, s.witness), success.end,
                                s.end, path \o <<k>>)>>
                   \o s.annotations,
                   s.context, s.end, s.witness)
  IN Result([k \in 1..Len(r.successes) |-> extend(k)],
            IF r.failure = None THEN None
            ELSE Some(Failure(<<Annotation(label, success.end,
                                           r.failure[1].end, path \o <<0>>)>>
                              \o r.failure[1].annotations,
                              r.failure[1].completions,
                              r.failure[1].end,
                              r.failure[1].pause)))

\* new Set(list), as the list of its members in insertion order.
RECURSIVE Distinct(_)
Distinct(list) ==
  IF list = <<>> THEN <<>>
  ELSE LET front == Distinct(SubSeq(list, 1, Len(list) - 1))
           last == list[Len(list)]
       IN IF \E i \in 1..Len(front) : front[i] = last
          THEN front ELSE Append(front, last)

\* The chain function of parseSubset's choose(choices).
Fewer(choices, parseSeparator) ==
  [kind |-> "fewer", choices |-> choices, parseSeparator |-> parseSeparator]

\* choose(choices) of parseSubset; choices lists the members of the Set.
choose(choices, parseSeparator) ==
  parseChain(
    "cons",
    parseChoice([i \in 1..Len(choices) |->
                   parseConstant(choices[i], WString(choices[i]))]),
    Fewer(choices, parseSeparator))

\* fewer = new Set(choices); fewer.delete(success.witness)
\* fewer = new Set(choices), nothing deleted.
SetDeleteNothing(choices, witness) == choices

SetDelete(choices, witness) ==
  LET differs(c) == WString(c) # witness IN SelectSeq(choices, differs)

parseSubset(constants, parseSeparator) ==
  parseAlternatives(parseEmpty(WArray(<<>>)),
                    choose(Distinct(constants), parseSeparator))

\* new PresentationType(parse, help, ...); a help text is a string, and ""
\* stands for the false values (null, "").
mpt(parse, help) == [parse |-> parse, help |-> help]

\* new ParameterSpec(name, type, help)
mps(name, type, help) == [name |-> name, type |-> type, help |-> help]

\* help(parser, helpText)
help(parser0, helpText) ==
  annotate([tag |-> "help", witness |-> WUndefined, helpText |-> helpText],
           parser0)

addParameterHelp(parameterSpec, parser0) ==
  LET helpText ==
        IF parameterSpec.help # "" THEN parameterSpec.help
        ELSE parameterSpec.type.help
  IN IF helpText # "" THEN help(parser0, helpText) ELSE parser0

\* CommandContext.parseDefaults
contextParseDefaults(context, commandName, parameterName, presentationType) ==
  presentationType.parse

parseDefaults(commandName, parameterName, presentationType) ==
  [type |-> "defaults", commandName |-> commandName,
   parameterName |-> parameterName, presentationType |-> presentationType]

parseParameterValue(commandName, parameterSpec) ==
  addParameterHelp(
    parameterSpec,
    annotate([tag |-> "parameter-value", witness |-> WUndefined,
              commandName |-> commandName, name |-> parameterSpec.name,
              type |-> parameterSpec.type],
             parseDefaults(commandName, parameterSpec.name,
                           parameterSpec.type)))

parseKeywordAndValue(commandName, preferredNames, parameterSpecs) ==
  parseChoice(
    [i \in 1..Len(parameterSpecs) |->
       parseSequence(
         "nameAndValue",
         << parseWhitespace,
            parseWithCompletions(
              [kind |-> "keyword", preferredNames |-> preferredNames],
              annotate([tag |-> "parameter-name", witness |-> WUndefined,
                        commandName |-> commandName,
                        name |-> parameterSpecs[i].name],
                       parseConstant(parameterSpecs[i].name,
                                     WString(parameterSpecs[i].name)))),
            parseWhitespace,
            parseParameterValue(commandName, parameterSpecs[i]) >>)])

\* The chain function of next(parameterSpecs, preferredNames, requiredNames).
NextChain(commandName, parameterSpecs, preferredNames, requiredNames) ==
  [kind |-> "next", commandName |-> commandName,
   parameterSpecs |-> parameterSpecs, preferredNames |-> preferredNames,
   requiredNames |-> requiredNames]

\* next(parameterSpecs, preferredNames, requiredNames) of
\* parseKeywordParameters.
next(commandName, parameterSpecs, preferredNames, requiredNames) ==
  LET chained ==
        parseChain(
          "cons",
          parseKeywordAndValue(commandName, preferredNames, parameterSpecs),
          NextChain(commandName, parameterSpecs, preferredNames,
                    requiredNames))
  IN IF Len(requiredNames) = 0
     THEN parseOptional(chained, WArray(<<>>))
     ELSE chained

\* The chain function with a filter that keeps the parameter just parsed
\* among the specifications.
nextAfterKeepsSpec(chain, success) ==
  LET name == success.witness.l[1]
      otherName(n) == WString(n) # name
  IN next(chain.commandName,
          chain.parameterSpecs,
          SelectSeq(chain.preferredNames, otherName),
          SelectSeq(chain.requiredNames, otherName))

\* function(success) { let [name, value] = success.witness; return next(...) }
nextAfter(chain, success) ==
  LET name == success.witness.l[1]
      otherSpec(ps) == WString(ps.name) # name
      otherName(n) == WString(n) # name
  IN next(chain.commandName,
          SelectSeq(chain.parameterSpecs, otherSpec),
          SelectSeq(chain.preferredNames, otherName),
          SelectSeq(chain.requiredNames, otherName))

parseKeywordParameters(commandName, optional, preferred, required) ==
  LET preferredNames == [i \in 1..Len(preferred) |-> preferred[i].name]
      parameterSpecs == optional \o preferred \o required
      requiredNames ==
        preferredNames \o [i \in 1..Len(required) |-> required[i].name]
  IN next(commandName, parameterSpecs, preferredNames, requiredNames)

\* chain(success): the parser a chain function returns for a Success.
ChainParser(chain, success) ==
  CASE chain.kind = "always" -> chain.parser
    [] chain.kind = "fewer" ->
         LET fewer == SetDelete(chain.choices, success.witness)
         IN IF Len(fewer) = 0
            THEN parseEmpty(WArray(<<>>))
            ELSE parseAlternatives(
                   parseEmpty(WArray(<<>>)),
                   parseThen("second", chain.parseSeparator,
                             choose(fewer, chain.parseSeparator)))
    [] chain.kind = "again" ->
         parseConstant(success.witness.s, success.witness)
    [] chain.kind = "next" -> nextAfter(chain, success)

(***************************************************************************)
(* parser(input, success): the application of a parser.  path tells the    *)
(* calls of one top-level invocation apart.                                *)
(***************************************************************************)

RECURSIVE Parse(_, _, _, _)
Parse(p, inp, success, path) ==
  CASE p.type = "constant" ->
         applyConstant(p.constant, p.witness, inp, success)
    [] p.type = "empty" -> applyEmpty(p.witness, inp, success)
    [] p.type = "fail" -> applyFail(inp, success)
    [] p.type = "alternatives" ->
         applyAlternatives(Parse(p.parser1, inp, success, path \o <<1>>),
                           Parse(p.parser2, inp, success, path \o <<2>>))
    [] p.type = "chain" ->
         LET r1 == Parse(p.parser1, inp, success, path \o <<0>>)
             chained ==
               [i \in 1..Len(r1.successes) |->
                  Parse(ChainParser(p.chain, r1.successes[i]), inp,
                        r1.successes[i], path \o <<i>>)]
         IN applyChain(p.mergeWitnesses, r1, chained)
    [] p.type = "sequence" ->
         applySequence(p.mergeWitnesses,
                       Parse(p.parser, inp, success, path \o <<1>>))
    [] p.type = "transform" ->
         applyTransform(p.transform,
                        Parse(p.parser, inp, success, path \o <<1>>))
    [] p.type = "filter" ->
         applyFilter(Parse(p.parser, inp, success, path \o <<1>>),
                     inp, success)
    [] p.type = "maybe" ->
         applyMaybe(Parse(p.parser, inp, success, path \o <<1>>),
                    inp, success)
    [] p.type = "nonEmpty" ->
         applyNonEmpty(Parse(p.parser, inp, success, path \o <<1>>),
                       inp, success)
    [] p.type = "withCompletions" ->
         applyWithCompletions(p.makeCompletions,
                              Parse(p.parser, inp, success, path \o <<1>>),
                              inp, success)
    [] p.type = "pause" ->
         applyPause(Parse(p.parser, inp, success, path \o <<1>>))
    [] p.type = "annotate" ->
         applyAnnotate(p.label,
                       Parse(p.parser, inp, success, path \o <<1>>),
                       inp, success, path)
    [] p.type = "restrictedRegexp" ->
         applyRestrictedRegexp(p.makeWitness, p.regexp, inp, success)
    [] p.type = "filterCompletions" ->
         applyFilterCompletions(Parse(p.parser, inp, success, path \o <<1>>))
    [] p.type = "defaults" ->
         Parse(contextParseDefaults(success.context, p.commandName,
                                    p.parameterName, p.presentationType),
               inp, success, path \o <<1>>)
    [] p.type = "lazyKleene" ->
         Parse(parseKleene(p.parser), inp, success, path \o <<1>>)
    [] p.type = "lazyRepeated" ->
         Parse(parseRepeated(p.parseElement, p.parseSeparator), inp, success,
               path \o <<1>>)

(***************************************************************************)
(* The caller: it builds a parser once, then invokes it on the whole text  *)
(* typed so far after every keystroke, from the initial Success; a parser  *)
(* is also invoked from a later position when it continues another one.    *)
(* The keys pressed are any characters of a small alphabet, up to a        *)
(* length, or the characters of one of some example texts.                 *)
(***************************************************************************)

Scenario(parser0, keys, texts) ==
  [parser |-> parser0, alphabet |-> keys, examples |-> texts]

\* The state before anything is typed, given what the first parse returned.
InitScenario(scenario, parsed) ==
    /\ parser = scenario.parser
    /\ alphabet = scenario.alphabet
    /\ examples = scenario.examples
    /\ input = <<>>
    /\ start = SuccessInitial(Context)
    /\ result = parsed
    /\ unnormalized = <<>>
    /\ normalized = normalizeCompletions(unnormalized)
    /\ earlier = <<>>
    /\ before = <<>>
    /\ after = <<>>
    /\ popup = <<>>
    /\ finished = <<>>
    /\ event = [key |-> "", before |-> <<>>, after |-> <<>>, appended |-> <<>>]
    /\ defaultsCache = <<>>
    /\ clock = 0
    /\ requests = <<>>
    /\ call = <<>>
    /\ xhrs = <<>>
    /\ handled = <<>>
    /\ retried = 0
    /\ failure1 = <<>>
    /\ failure2 = <<>>
    /\ merged = <<>>
    /\ stack = <<>>

InitFrom(scenarios) ==
  \E i \in 1..Len(scenarios) :
    InitScenario(scenarios[i],
                 Parse(scenarios[i].parser, <<>>, SuccessInitial(Context), <<>>))

\* The characters that may be typed next.
NextKeys(maxInput) ==
  (IF Len(input) < maxInput THEN alphabet ELSE {})
  \cup {e[Len(input) + 1] :
          e \in {x \in examples : Len(x) > Len(input) /\ StartsWith(x, input)}}

\* One more character is typed and the text is parsed from the beginning.
Keystroke(maxInput) ==
  /\ \E c \in NextKeys(maxInput) :
       /\ input' = Append(input, c)
       /\ start' = SuccessInitial(Context)
       /\ result' = Parse(parser, input', start', <<>>)
  /\ UNCHANGED server
  /\ UNCHANGED <<merging, stack>>
  /\ UNCHANGED <<parser, alphabet, examples, unnormalized, normalized, earlier,
                 commandLine>>

\* The parser is invoked on the same text from a Success that ends at a
\* later position.
ParseFrom ==
  /\ \E position \in 1..Len(input) :
       /\ start' = Success(<<>>, Context, position, WNull)
       /\ result' = Parse(parser, input, start', <<>>)
  /\ UNCHANGED server
  /\ UNCHANGED <<merging, stack>>
  /\ UNCHANGED <<parser, alphabet, examples, input, unnormalized, normalized,
                 earlier, commandLine>>

AB == {"a", "b"}

(***************************************************************************)
(* Constants                                                               *)
(***************************************************************************)

MaxConstantInput == 4

Launch == <<"l", "a", "u", "n", "c", "h">>

ConstantScenarios ==
  << Scenario(parseConstant(<<>>, WString(<<>>)), AB, {}),
     Scenario(parseConstant(<<"a">>, WString(<<"a">>)), AB, {}),
     Scenario(parseConstant(<<"a", "b">>, WString(<<"a", "b">>)), AB, {}),
     Scenario(parseConstant(<<"a", "b", "a">>, WApply("w", <<>>)), AB, {}),
     Scenario(parseConstant(<<"b", "b">>, WNull), AB, {}),
     Scenario(parseConstant(Launch, WString(Launch)), {"l", "a"},
              {Launch \o <<"l", "a", "u">>}) >>

InitConstant == InitFrom(ConstantScenarios)

NextConstant == Keystroke(MaxConstantInput) \/ ParseFrom

SpecConstant == InitConstant /\ [][NextConstant]_vars

(***************************************************************************)
(* Parsers built from all the combinators                                  *)
(***************************************************************************)

MaxInput == 3

A == parseConstant(<<"a">>, WString(<<"a">>))

B == parseConstant(<<"b">>, WString(<<"b">>))

\* Parsers that the combinators below are applied to.
Operands ==
  << A,
     parseConstant(<<"a", "b">>, WString(<<"a", "b">>)),
     parseEmpty(WString(<<"e", "m", "p", "t", "y">>)),
     parseFail,
     parseOptional(A, WString(<<"m", "i", "s", "s", "i", "n", "g">>)),
     parseStar("join", B),
     annotate(Label("help"), parseChoice(<<A, B>>)),
     parsePause(withoutCompletions(B)) >>

\* The parsers f(x) for the operands x.
Unary(f(_)) == [i \in 1..Len(Operands) |-> Scenario(f(Operands[i]), AB, {})]

\* The parsers f(x, y) for the operands x and y.
Binary(f(_, _)) ==
  [i \in 1..(Len(Operands) * Len(Operands)) |->
     Scenario(f(Operands[((i - 1) \div Len(Operands)) + 1],
                Operands[((i - 1) % Len(Operands)) + 1]),
              AB, {})]

Then2(parser1, parser2) == parseThen("f", parser1, parser2)

\* chain: success => parseConstant(success.witness), for string witnesses.
Again(parser1) == parseChain("f", parser1, [kind |-> "again"])

Sequence2(parser1, parser2) == parseSequence("f", <<parser1, parser2>>)

Sequence3(parser1, parser2) == parseSequence("f", <<parser1, parser2, A>>)

Transformed(parser0) == parseTransform(parser0, "g")

\* A parser whose witness computation rejects everything but "a".
MaybeA(parser0) == parseMaybe(parseTransform(parser0, "nullUnlessA"))

Star(parser0) == parseStar("identity", parseNonEmpty(parser0))

Plus(parser0) == parsePlus("identity", parseNonEmpty(parser0))

Separated(parser1, parser2) ==
  parseSeparated("identity", parseNonEmpty(parser1), parser2)

Optional(parser0) == parseOptional(parser0, WString(<<"n", "o">>))

WithFixedCompletions(parser0) ==
  parseWithCompletions(
    [kind |-> "fixed", completions |-> << <<"a">>, <<"b">> >>], parser0)

WithCompletionsAtStart(parser0) ==
  parseWithCompletions(
    [kind |-> "atStart", completions |-> << <<"a">> >>], parser0)

Annotated(parser0) == annotate(Label("outer"), parser0)

Subset2(parser0) == parseSubset(<< <<"a">>, <<"a", "b">>, <<"a">> >>, parser0)

X == parseConstant(<<"x">>, WString(<<"x">>))

Y == parseConstant(<<"y">>, WString(<<"y">>))

Scenarios ==
  << Scenario(parseSequence("f", <<X, Y>>), {"x", "y"}, {}) >>
  \o Unary(LAMBDA x : x)
  \o Binary(parseAlternatives) \o Binary(Then2) \o Binary(Sequence2)
  \o Binary(Sequence3) \o Binary(Separated)
  \o Unary(Again) \o Unary(Transformed) \o Unary(parseFilter)
  \o Unary(MaybeA) \o Unary(Star) \o Unary(Plus) \o Unary(parseNonEmpty)
  \o Unary(Optional) \o Unary(WithFixedCompletions)
  \o Unary(WithCompletionsAtStart) \o Unary(withoutCompletions)
  \o Unary(parsePause) \o Unary(Annotated) \o Unary(Subset2)

Init == InitFrom(Scenarios)

Next == Keystroke(MaxInput) \/ ParseFrom

Spec == Init /\ [][Next]_vars

(***************************************************************************)
(* parseChoice over constants                                              *)
(***************************************************************************)

MaxChoiceInput == 3

Words ==
  << <<"c", "a", "t">>, <<"c", "a", "r">>, <<"c", "a">>, <<"c">>,
     <<"a", "t">> >>

ConstantOf(word) == parseConstant(word, WString(word))

\* parseChoice over every pair of the words, and over some longer lists.
ChoiceScenarios ==
  [i \in 1..(Len(Words) * Len(Words)) |->
     Scenario(
       parseChoice(<<ConstantOf(Words[((i - 1) \div Len(Words)) + 1]),
                     ConstantOf(Words[((i - 1) % Len(Words)) + 1])>>),
       {"c", "a", "t", "r"}, {})]
  \o << Scenario(parseChoice([i \in 1..3 |-> ConstantOf(Words[i])]),
                 {"c", "a", "t", "r"}, {}),
        Scenario(parseChoice([i \in 1..4 |-> ConstantOf(Words[5 - i])]),
                 {"c", "a", "t", "r"}, {}),
        Scenario(parseChoice([i \in 1..5 |-> ConstantOf(Words[i])]),
                 {"c", "a", "t"}, {}) >>

InitChoice == InitFrom(ChoiceScenarios)

NextChoice == Keystroke(MaxChoiceInput) \/ ParseFrom

SpecChoice == InitChoice /\ [][NextChoice]_vars

(***************************************************************************)
(* parseStar                                                               *)
(***************************************************************************)

MaxStarInput == 5

StarScenarios ==
  << Scenario(parseStar("join", ConstantOf(<<"a", "b">>)), AB, {}),
     Scenario(parseStar("join", A), AB, {}),
     Scenario(parseStar("join", ConstantOf(<<"a", "b", "a">>)), AB, {}),
     Scenario(parseStar("identity", ConstantOf(<<"a", "a">>)), AB, {}),
     Scenario(parseStar("g", ConstantOf(<<"b", "a">>)), AB, {}),
     Scenario(parseStar("join", parseChoice(<<A, B>>)), AB, {}),
     Scenario(parseStar("identity", parseChoice(<<B, A>>)), AB, {}) >>

InitStar == InitFrom(StarScenarios)

NextStar == Keystroke(MaxStarInput) \/ ParseFrom

SpecStar == InitStar /\ [][NextStar]_vars

(***************************************************************************)
(* parseSubset                                                             *)
(***************************************************************************)

MaxSubsetInput == 4

Comma == parseConstant(<<",">>, WString(<<",">>))

ABComma == {"a", "b", ","}

SubsetScenarios ==
  << Scenario(parseSubset(<< <<"a">>, <<"b">>, <<"c">> >>, Comma),
              {"a", ","},
              {<<"c", ",", "a", ",", "b">>, <<"b", ",", "a", ",", "c">>,
               <<"a", ",", "b", ",", "a">>, <<"c", ",", "c">>}),
     Scenario(parseSubset(<< <<"a">>, <<"a", "b">>, <<"a">> >>, Comma),
              ABComma, {}),
     Scenario(parseSubset(<< <<"a">>, <<"b">> >>,
                          parseConstant(<<>>, WString(<<>>))),
              AB, {}),
     Scenario(parseSubset(<< <<"a">>, <<"a", ",", "b">>, <<"b">> >>, Comma),
              ABComma, {}),
     Scenario(parseSubset(<< <<"b">>, <<"a">> >>,
                          parseConstant(<<",", ",">>, WNull)),
              ABComma, {}),
     Scenario(parseSubset(<< <<>>, <<"a">> >>, Comma), {"a", ","}, {}),
     Scenario(parseSubset(<<>>, Comma), {"a", ","}, {}) >>

InitSubset == InitFrom(SubsetScenarios)

NextSubset == Keystroke(MaxSubsetInput) \/ ParseFrom

SpecSubset == InitSubset /\ [][NextSubset]_vars

(***************************************************************************)
(* normalizeCompletions                                                    *)
(***************************************************************************)

MaxCompletions == 4

CompletionStrings ==
  { <<>>, <<"a">>, <<"b">>, <<"a", ",">>, <<"a", "a">>, <<"a", "b">>,
    <<"b", "a">>, <<"a", "a", "b">> }

InitNormalize == InitFrom(<<Scenario(parseFail, {}, {})>>)

\* One more string joins the array and the array is normalized.
AddCompletion ==
  /\ Len(unnormalized) < MaxCompletions
  /\ \E c \in CompletionStrings :
       /\ unnormalized' = Append(unnormalized, c)
       /\ normalized' = normalizeCompletions(unnormalized')
  /\ UNCHANGED server
  /\ UNCHANGED <<merging, stack>>
  /\ UNCHANGED <<parser, alphabet, examples, input, start, result, earlier,
                 commandLine>>

\* A normalized array is normalized again, as mergeFailures does with the
\* completions of two failures.
Renormalize ==
  /\ unnormalized' = normalized
  /\ normalized' = normalizeCompletions(unnormalized')
  /\ UNCHANGED server
  /\ UNCHANGED <<merging, stack>>
  /\ UNCHANGED <<parser, alphabet, examples, input, start, result, earlier,
                 commandLine>>

NextNormalize == AddCompletion \/ Renormalize

SpecNormalize == InitNormalize /\ [][NextNormalize]_vars

(***************************************************************************)
(* Repeated invocations of one parser.  The caller may keep what an         *)
(* invocation returned and invoke the parser again on any text from any     *)
(* position.                                                               *)
(***************************************************************************)

MaxPureInput == 2

\* The texts over a set of characters up to a length.
Texts(keys, length) == UNION {[1..k -> keys] : k \in 0..length}

PureScenarios ==
  << Scenario(Annotated(parseStar("join", parseChoice(<<A, B>>))), AB, {}),
     Scenario(parseSubset(<< <<"a">>, <<"b">> >>,
                          parseConstant(<<>>, WString(<<>>))),
              AB, {}),
     Scenario(WithFixedCompletions(parsePlus("identity", A)), AB, {}),
     Scenario(parseAlternatives(Annotated(A),
                                Annotated(ConstantOf(<<"a", "b">>))),
              AB, {}) >>

InitPure == InitFrom(PureScenarios)

\* The parser is invoked on a text from a position.  An invocation with
\* another text or position than the kept one marks it as interleaved.
Invoke ==
  /\ \E text \in Texts(alphabet, MaxPureInput) : \E position \in 0..Len(text) :
       /\ input' = text
       /\ start' = IF position = 0 THEN SuccessInitial(Context)
                   ELSE Success(<<>>, Context, position, WNull)
       /\ result' = Parse(parser, input', start', <<>>)
       /\ earlier' =
            IF earlier = <<>> THEN earlier
            ELSE <<[earlier[1] EXCEPT
                      !.interleaved = @ \/ input' # earlier[1].input
                                        \/ start' # earlier[1].start]>>
  /\ UNCHANGED server
  /\ UNCHANGED <<merging, stack>>
  /\ UNCHANGED <<parser, alphabet, examples, unnormalized, normalized,
                 commandLine>>

\* The caller keeps the arguments and the result of the last invocation.
Remember ==
  /\ earlier' = <<[input |-> input, start |-> start, result |-> result,
                   interleaved |-> FALSE]>>
  /\ UNCHANGED server
  /\ UNCHANGED <<merging, stack>>
  /\ UNCHANGED <<parser, alphabet, examples, input, start, result,
                 unnormalized, normalized, commandLine>>

NextPure == Invoke \/ Remember

SpecPure == InitPure /\ [][NextPure]_vars

(***************************************************************************)
(* The command line (command-ui.js).  parser is processor.parse; the text   *)
(* of the edit area is the text before the caret followed by the text     *)
(* after it.                                                               *)
(***************************************************************************)

\* parse(text, Success.initial(processor.context))
parseCommandText(text) == Parse(parser, text, SuccessInitial(Context), <<>>)

stringMatchForward(string1, string2) ==
  substringMatchForward(string1, 0, Len(string1), string2, 0, Len(string2))

\* The for loop of uniqueCompletion over the sorted completions.
RECURSIVE UniqueLoop(_, _)
UniqueLoop(first, sorted) ==
  IF sorted = <<>> THEN first
  ELSE LET prefix == stringMatchForward(first, Head(sorted))
       IN IF prefix = 0 THEN <<>>
          ELSE UniqueLoop(SubSeq(first, 1, prefix), Tail(sorted))

\* uniqueCompletion that does not look at pause.
uniqueCompletionIgnoresPause(failure) ==
  IF Len(failure.completions) = 0 THEN <<>>
  ELSE LET sorted == Sort(failure.completions)
       IN UniqueLoop(sorted[1], sorted)

uniqueCompletion(failure) ==
  IF failure.pause THEN <<>>
  ELSE IF Len(failure.completions) = 0 THEN <<>>
  ELSE LET sorted == Sort(failure.completions)
       IN UniqueLoop(sorted[1], sorted)

\* validParses without the test of the end.
validParsesAnywhere(end, successes) == successes

validParses(end, successes) ==
  LET endsThere(s) == s.end = end IN SelectSeq(successes, endsThere)

partialAnnotations(successes, failure) ==
  IF failure # None THEN failure[1].annotations
  ELSE mergeSuccessAnnotations(successes)

toOtherCase(character) ==
  IF \E i \in 1..Len(Lowercase) : Lowercase[i] = character
  THEN Uppercase[CHOOSE i \in 1..Len(Lowercase) : Lowercase[i] = character]
  ELSE IF \E i \in 1..Len(Uppercase) : Uppercase[i] = character
  THEN Lowercase[CHOOSE i \in 1..Len(Uppercase) : Uppercase[i] = character]
  ELSE character

\* The tags of the annotations that showCommand turns into spans.
SpanTags == {"command-name", "parameter-name", "parameter-value"}

\* groupBy(annotations, a => a.start) and the first of every group, by start.
Representatives(annotations) ==
  LET first(i) == \A j \in 1..(i - 1) : annotations[j].start # annotations[i].start
      firsts == {i \in 1..Len(annotations) : first(i)}
      rank(i) == Cardinality({j \in firsts :
                                annotations[j].start < annotations[i].start})
  IN [k \in 1..Cardinality(firsts) |->
        annotations[CHOOSE i \in firsts : rank(i) = k - 1]]

\* The for loop of segments; tag "" stands for null.
RECURSIVE SegmentLoop(_, _, _, _)
SegmentLoop(representatives, i, size, acc) ==
  IF representatives = <<>> \/ i > Head(representatives).start
  THEN Append(acc, [tag |-> "", start |-> i, end |-> size])
  ELSE LET a == Head(representatives)
           gap == IF i < a.start
                  THEN <<[tag |-> "", start |-> i, end |-> a.start]>>
                  ELSE <<>>
       IN SegmentLoop(Tail(representatives), a.end, size,
                      acc \o gap
                          \o <<[tag |-> a.label.tag, start |-> a.start,
                                end |-> a.end]>>)

segments(annotations, size) ==
  SegmentLoop(Representatives(annotations), 0, size, <<>>)

\* showCommand(processor, before, after, showCompletions), given what
\* processor.parse returned for before: the edit area is rebuilt from
\* spans.  The caret is put after the text before it; when that text is
\* empty no range is set, the selection stays on the edit area itself, and
\* commandTextDivided then takes the whole text as before the caret.  The
\* completions pop up in the tagged span at the caret, if any.
showParsed(before0, after0, showCompletions, r) ==
  LET completions == IF r.failure # None THEN r.failure[1].completions
                     ELSE <<>>
      position == Len(before0)
      tagged(a) == a.label.tag \in SpanTags
      segs == segments(SelectSeq(partialAnnotations(r.successes, r.failure),
                                 tagged),
                       Len(before0) + Len(after0))
      atCaret == \E k \in 1..Len(segs) :
                   /\ segs[k].tag # ""
                   /\ segs[k].start <= position
                   /\ position <= segs[k].end
  IN [before |-> IF position = 0 THEN after0 ELSE before0,
      after |-> IF position = 0 THEN <<>> ELSE after0,
      popup |-> IF showCompletions /\ Len(completions) > 0 /\ atCaret
                THEN completions ELSE <<>>]

showCommand(before0, after0, showCompletions) ==
  showParsed(before0, after0, showCompletions, parseCommandText(before0))

\* The unique completion of the failure at the end of a text, or "".
NextUnique(r, size) ==
  IF r.failure # None /\ r.failure[1].end = size
  THEN uniqueCompletion(r.failure[1]) ELSE <<>>

\* The condition of the do-while loop of complete.
ExtendsAgain(r, size) ==
  /\ \A k \in 1..Len(r.successes) : r.successes[k].end < size
  /\ NextUnique(r, size) # <<>>

\* The do-while loop of complete: unique, taken from a failure with the
\* given pause, is appended to the extension and the longer text is parsed;
\* acc lists what was appended and the pause of the failure it came from.
RECURSIVE ExtendLoop(_, _, _, _, _)
ExtendLoop(before0, extension, unique, pause, acc) ==
  IF ExtendsAgain(parseCommandText(before0 \o extension \o unique),
                  Len(before0) + Len(extension) + Len(unique))
  THEN ExtendLoop(
         before0, extension \o unique,
         NextUnique(parseCommandText(before0 \o extension \o unique),
                    Len(before0) + Len(extension) + Len(unique)),
         parseCommandText(before0 \o extension \o unique).failure[1].pause,
         Append(acc, [pause |-> pause, text |-> unique]))
  ELSE [extension |-> extension \o unique,
        appended |-> Append(acc, [pause |-> pause, text |-> unique])]

\* The end of complete: the extension replaces what it shares with the text
\* after the caret.
showExtended(before0, after0, loop) ==
  [appended |-> loop.appended]
  @@ showCommand(before0 \o loop.extension,
                 Slice(after0, stringMatchForward(after0, loop.extension)),
                 FALSE)

\* complete(processor), given what processor.parse returned for the text
\* before the caret.
completeParsed(before0, after0, popup0, r) ==
  IF r.failure = None \/ r.failure[1].end < Len(before0)
  THEN [before |-> before0, after |-> after0, popup |-> popup0,
        appended |-> <<>>]
  ELSE IF uniqueCompletion(r.failure[1]) = <<>>
  THEN IF Len(r.failure[1].completions) > 0
       THEN [appended |-> <<>>] @@ showParsed(before0, after0, TRUE, r)
       ELSE [before |-> before0, after |-> after0, popup |-> popup0,
             appended |-> <<>>]
  ELSE showExtended(before0, after0,
                    ExtendLoop(before0, <<>>, uniqueCompletion(r.failure[1]),
                               r.failure[1].pause, <<>>))

\* complete(processor) with the caret between before0 and after0 and popup0
\* on display: the text, the caret and the popup it leaves, and what it
\* appended.
complete(before0, after0, popup0) ==
  completeParsed(before0, after0, popup0, parseCommandText(before0))

\* check(proposed) of insertCharacter, given what the parse of fullText
\* returned.
checkParsed(fullText, after0, unchanged, r) ==
  IF furthestSuccess(r.successes) < Len(fullText)
     /\ (r.failure = None \/ r.failure[1].end < Len(fullText))
  THEN [progress |-> FALSE, valid |-> FALSE] @@ unchanged
  ELSE [progress |-> TRUE,
        valid |-> Len(validParses(Len(fullText), r.successes)) > 0]
       @@ showParsed(fullText, after0, FALSE, r)

\* check without the test of progress: the proposed text is always shown.
checkAnything(before0, after0, popup0, proposed) ==
  [progress |-> TRUE,
   valid |-> Len(validParses(Len(before0 \o proposed),
                             parseCommandText(before0 \o proposed).successes))
             > 0]
  @@ showCommand(before0 \o proposed, after0, FALSE)

check(before0, after0, popup0, proposed) ==
  checkParsed(before0 \o proposed, after0,
              [before |-> before0, after |-> after0, popup |-> popup0],
              parseCommandText(before0 \o proposed))

\* if (progress) return valid; otherwise the other case is checked.
FirstOrOther(first, other) == IF first.progress THEN first ELSE other

\* insertCharacter(event, processor) for the key of the event.
insertCharacter(before0, after0, popup0, key) ==
  FirstOrOther(check(before0, after0, popup0, <<key>>),
               check(before0, after0, popup0, <<toOtherCase(key)>>))

MaxCommandLength == 5

\* A key leaves the command line as an outcome says, and is recorded with
\* the text it found.
Leaves(key, outcome, appended) ==
  /\ before' = outcome.before
  /\ after' = outcome.after
  /\ popup' = outcome.popup
  /\ event' = [key |-> key, before |-> before, after |-> after,
               appended |-> appended]

\* keypress of a character other than a space, without modifiers.
PressCharacter ==
  /\ Len(before) + Len(after) < MaxCommandLength
  /\ \E key \in alphabet \ {" "} :
       Leaves(key, insertCharacter(before, after, <<>>, key), <<>>)
  /\ finished' = <<>>

\* if (! insertCharacter(event, processor)) { complete(processor); }
SpaceOutcome(inserted) ==
  IF inserted.valid THEN [appended |-> <<>>] @@ inserted
  ELSE complete(inserted.before, inserted.after, inserted.popup)

LeavesAppended(key, outcome) == Leaves(key, outcome, outcome.appended)

\* keypress of the space bar.
PressSpace ==
  /\ Len(before) + Len(after) < MaxCommandLength
  /\ LeavesAppended(" ",
                    SpaceOutcome(insertCharacter(before, after, <<>>, " ")))
  /\ finished' = <<>>

\* if (valid.length > 0) { processor.finish(valid[0].witness); }
Finish(valid) == IF Len(valid) > 0 THEN <<valid[1].witness>> ELSE <<>>

\* keypress of Enter: the command is executed if the whole text parses.
PressEnter ==
  /\ finished' =
       Finish(validParses(Len(before \o after),
                          parseCommandText(before \o after).successes))
  /\ popup' = <<>>
  /\ event' = [key |-> "Enter", before |-> before, after |-> after,
               appended |-> <<>>]
  /\ UNCHANGED <<before, after>>

\* The keypress handler.
KeyPress ==
  /\ PressEnter \/ PressSpace \/ PressCharacter
  /\ UNCHANGED server
  /\ UNCHANGED <<merging, stack>>
  /\ UNCHANGED <<parser, alphabet, examples, input, start, result,
                 unnormalized, normalized, earlier>>

\* keydown of Tab (or C-i): complete.
KeyDownTab ==
  /\ LeavesAppended("Tab", complete(before, after, popup))
  /\ finished' = <<>>
  /\ UNCHANGED server
  /\ UNCHANGED <<merging, stack>>
  /\ UNCHANGED <<parser, alphabet, examples, input, start, result,
                 unnormalized, normalized, earlier>>

\* The caret is put elsewhere in the text.
MoveCaret ==
  /\ \E position \in 0..(Len(before) + Len(after)) :
       /\ position # Len(before)
       /\ before' = SubSeq(before \o after, 1, position)
       /\ after' = Slice(before \o after, position)
  /\ event' = [key |-> "", before |-> before, after |-> after,
               appended |-> <<>>]
  /\ finished' = <<>>
  /\ UNCHANGED server
  /\ UNCHANGED <<merging, stack>>
  /\ UNCHANGED <<parser, alphabet, examples, input, start, result,
                 unnormalized, normalized, earlier, popup>>

Go == <<"g", "o">>

Up == <<"u", "p">>

CommandName(name) == annotate(Label("command-name"), ConstantOf(name))

ParameterValue(parser0) == annotate(Label("parameter-value"), parser0)

\* The parsers given to CommandProcessor, which wraps them in
\* filterCompletions: a command name, whitespace and a value that is one
\* word, one of two words, or a word behind parsePause; and a command whose
\* name starts with a capital.
CommandScenarios ==
  << Scenario(filterCompletions(
                parseSequence("f", <<CommandName(Go), parseWhitespace,
                                     ParameterValue(ConstantOf(Up))>>)),
              {"g", "o", " ", "u"}, {}),
     Scenario(filterCompletions(
                parseSequence("f", <<CommandName(Go), parseWhitespace,
                                     ParameterValue(parseChoice(
                                       <<ConstantOf(Up),
                                         ConstantOf(<<"o", "n">>)>>))>>)),
              {"g", " ", "u"}, {}),
     Scenario(filterCompletions(
                parseSequence("f", <<CommandName(Go), parseWhitespace,
                                     ParameterValue(
                                       parsePause(ConstantOf(Up)))>>)),
              {"g", " ", "u"}, {}),
     Scenario(filterCompletions(
                parseSequence("f", <<CommandName(<<"G">>),
                                     parseOptional(
                                       parseSequence("f",
                                         <<parseWhitespace,
                                           ParameterValue(ConstantOf(Up))>>),
                                       WNull)>>)),
              {"g", " ", "u"}, {}) >>

InitCommand == InitFrom(CommandScenarios)

NextCommand == KeyPress \/ KeyDownTab \/ MoveCaret

SpecCommand == InitCommand /\ [][NextCommand]_vars

\* insertCharacter alone, for any key that makes a character: what the
\* keypress handler calls first for the space bar and for every other
\* character.
InsertCharacter ==
  /\ Len(before) + Len(after) < MaxCommandLength
  /\ \E key \in alphabet \cup {"G", "O", "U"} :
       Leaves(key, insertCharacter(before, after, <<>>, key), <<>>)
  /\ finished' = <<>>
  /\ UNCHANGED server
  /\ UNCHANGED <<merging, stack>>
  /\ UNCHANGED <<parser, alphabet, examples, input, start, result,
                 unnormalized, normalized, earlier>>

NextInsert == InsertCharacter

SpecInsert == InitCommand /\ [][NextInsert]_vars

(***************************************************************************)
(* parseKeywordParameters                                                  *)
(***************************************************************************)

MaxKeywordInput == 4

\* A presentation type in the manner of YES_NO_TYPE, and one without help.
XY_TYPE == mpt(parseChoice(<<X, Y>>), "x or y")

X_TYPE == mpt(X, "")

\* The parameters of a command "go", declared as optional, preferred or
\* required; in the last declaration one name is declared twice.
KeywordScenarios ==
  LET a == mps(<<"a">>, XY_TYPE, "")
      b == mps(<<"b">>, XY_TYPE, "the parameter b")
      c == mps(<<"c">>, X_TYPE, "")
      keys == {" ", "a", "b", "x"}
  IN << Scenario(parseKeywordParameters(Go, <<a>>, <<>>, <<b>>), keys,
                 {<<" ", "a", " ", "x", " ", "b", " ", "y">>,
               <<" ", "b", " ", "y", " ", "a", " ", "x">>,
               <<" ", "a", " ", "x", " ", "a", " ", "x", " ", "b", " ", "x">>}),
        Scenario(parseKeywordParameters(Go, <<c>>, <<a>>, <<b>>), keys,
                 {<<" ", "a", " ", "x", " ", "b", " ", "y", " ", "c", " ", "x">>,
               <<" ", "c", " ", "x", " ", "b", " ", "y", " ", "a", " ", "y">>}),
        Scenario(parseKeywordParameters(Go, <<a, b>>, <<>>, <<>>), keys,
                 {<<" ", "a", " ", "x", " ", "b", " ", "y">>,
               <<" ", "b", " ", "y", " ", "b", " ", "x">>}),
        Scenario(parseKeywordParameters(Go, <<>>, <<a>>, <<>>), keys,
                 {<<" ", "a", " ", "y">>,
               <<" ", "a", " ", "y", " ", "a", " ", "x">>}),
        Scenario(parseKeywordParameters(Go, <<a>>, <<>>, <<a, b>>), keys,
                 {<<" ", "a", " ", "x", " ", "b", " ", "y">>,
               <<" ", "b", " ", "x", " ", "a", " ", "y", " ", "a", " ", "x">>}) >>

InitKeywords == InitFrom(KeywordScenarios)

NextKeywords == Keystroke(MaxKeywordInput) \/ ParseFrom

SpecKeywords == InitKeywords /\ [][NextKeywords]_vars

(***************************************************************************)
(* DefaultsMixin: the cache of default values fetched from the server.     *)
(* defaultsCache maps an id to { pending: time } or to { received: time,   *)
(* value: info }; new Date().getTime() is the clock.  A handler runs to    *)
(* its end before another one starts.                                      *)
(***************************************************************************)

DEFAULTS_VALUE_CACHE_TIMEOUT_MILLISECONDS == 1000 * 60 * 5

\* Array.prototype.find, given for every element whether it passes the
\* test: the index of the first element that passes, or 0.
Find(passes) ==
  IF \E i \in 1..Len(passes) : passes[i]
  THEN CHOOSE i \in 1..Len(passes) :
         passes[i] /\ \A j \in 1..(i - 1) : ~passes[j]
  ELSE 0

\* isIdCached with <= in place of <.
isIdCachedAtTimeout(cache, id, now) ==
  /\ id \in DOMAIN cache
  /\ "received" \in DOMAIN cache[id]
  /\ now - cache[id].received <= DEFAULTS_VALUE_CACHE_TIMEOUT_MILLISECONDS

isIdCached(cache, id, now) ==
  /\ id \in DOMAIN cache
  /\ "received" \in DOMAIN cache[id]
  /\ now - cache[id].received < DEFAULTS_VALUE_CACHE_TIMEOUT_MILLISECONDS

\* isIdPending that looks for the field of a received entry.
isIdPendingReceived(cache, id) ==
  id \in DOMAIN cache /\ "received" \in DOMAIN cache[id]

isIdPending(cache, id) ==
  id \in DOMAIN cache /\ "pending" \in DOMAIN cache[id]

markIdPending(cache, id, now) == (id :> [pending |-> now]) @@ cache

rememberId(cache, id, value, now) ==
  (id :> [received |-> now, value |-> value]) @@ cache

\* default(id, parameterName): the value in a one-element list, or the empty
\* list for a false value.
default(cache, id, parameterName, now) ==
  IF isIdCached(cache, id, now) /\ parameterName \in DOMAIN cache[id].value
  THEN <<cache[id].value[parameterName]>>
  ELSE <<>>

\* The witness of the key parameter's value is the id; an id is the key of
\* a property of defaultsCache, its string.
keyValueToIDs(witness) == IF Truthy(witness) THEN <<witness.s>> ELSE <<>>

\* grammar.find(c => c.name === commandName)
findCommand(commandName, grammar) ==
  Find([i \in 1..Len(grammar) |-> grammar[i].name = commandName])

\* The key parameter of a command in a one-element list, or the empty list.
keyParameter(commandName, grammar) ==
  IF findCommand(commandName, grammar) = 0 THEN <<>>
  ELSE grammar[findCommand(commandName, grammar)].keyParameter

isKeyParameterValue(key, annotation) ==
  annotation.label.tag = "parameter-value" /\ annotation.label.name = key

\* The annotation of the key parameter's value among annotations, in a
\* one-element list, or the empty list.
KeyValue(annotations, grammar) ==
  LET command ==
        Find([i \in 1..Len(annotations) |->
                annotations[i].label.tag = "command-name"])
      key == IF command = 0 THEN <<>>
             ELSE keyParameter(annotations[command].label.name, grammar)
      value ==
        Find([i \in 1..Len(annotations) |->
                key # <<>> /\ isKeyParameterValue(key[1], annotations[i])])
  IN IF value = 0 THEN <<>> ELSE <<annotations[value]>>

\* toFetch of maybeFetchDefaultValues(annotations, end).
ToFetch(cache, now, grammar, annotations, end) ==
  LET keyValue == KeyValue(annotations, grammar)
      fetchable(id) ==
        id # <<>> /\ ~isIdPending(cache, id) /\ ~isIdCached(cache, id, now)
  IN IF keyValue # <<>>
        /\ (end < keyValue[1].start \/ end > keyValue[1].end)
     THEN SelectSeq(keyValueToIDs(keyValue[1].label.witness), fetchable)
     ELSE <<>>

\* for (let id of toFetch) { this.markIdPending(id); }
RECURSIVE MarkAll(_, _, _)
MarkAll(cache, ids, now) ==
  IF ids = <<>> THEN cache
  ELSE MarkAll(markIdPending(cache, Head(ids), now), Tail(ids), now)

\* for (let id of Object.keys(defaults)) { context.rememberId(id, ...); }
RECURSIVE RememberAll(_, _, _, _)
RememberAll(cache, ids, defaults, now) ==
  IF ids = <<>> THEN cache
  ELSE RememberAll(rememberId(cache, Head(ids), defaults[Head(ids)], now),
                   Tail(ids), defaults, now)

MaxClockTicks == 3

MaxRequests == 3

\* The grammar of the application: one command has a key parameter.
ROCKET_GRAMMAR ==
  << [name |-> "Edit Rocket", keyParameter |-> <<"name">>],
     [name |-> "Fuel Rocket", keyParameter |-> <<>>] >>

\* The ids the user may name, and the values the server may hold for one.
Ids == { <<"a">>, <<"b">> }

Infos == { [country |-> "USA"], [serial |-> "SA-506"] }

\* The annotations of a command line: at most a command name, and at most a
\* value of a parameter, which lies between two positions.
CommandAnnotations ==
  LET names == {"Edit Rocket", "Fuel Rocket"}
      commands ==
        { <<>> } \cup
        { << Annotation([tag |-> "command-name", name |-> n,
                         witness |-> WString(<<>>)], 0, 1, <<1>>) >> :
            n \in names }
      witnesses == { WString(id) : id \in Ids } \cup { WNull }
      values ==
        { <<>>,
          << Annotation([tag |-> "parameter-value", name |-> "country",
                         witness |-> WString(<<"a">>)], 2, 4, <<2>>) >> }
        \cup
        { << Annotation([tag |-> "parameter-value", name |-> "name",
                         witness |-> w], 2, 4, <<2>>) >> : w \in witnesses }
  IN { c \o v : c \in commands, v \in values }

\* maybeFetchDefaultValues(annotations, end), called by the application
\* with the annotations of the command line and the caret's position.
MaybeFetchDefaultValues ==
  /\ \E annotations \in CommandAnnotations :
       \E end \in {1, 3, 5} :
         LET toFetch ==
               ToFetch(defaultsCache, clock, ROCKET_GRAMMAR, annotations, end)
         IN /\ Len(toFetch) > 0 => Len(requests) < MaxRequests
            /\ defaultsCache' = MarkAll(defaultsCache, toFetch, clock)
            /\ requests' =
                 IF Len(toFetch) > 0
                 THEN Append(requests, [ids |-> toFetch, readyState |-> 1])
                 ELSE requests
            /\ call' = << [name |-> "maybeFetchDefaultValues",
                           toFetch |-> toFetch, cache |-> defaultsCache,
                           requests |-> requests] >>
  /\ UNCHANGED <<clock, xhrs, handled, retried>>
  /\ UNCHANGED <<merging, stack>>
  /\ UNCHANGED <<parser, alphabet, examples, input, start, result,
                 unnormalized, normalized, earlier, commandLine>>

\* A list without its i-th element.
Without(list, i) == SubSeq(list, 1, i - 1) \o SubSeq(list, i + 1, Len(list))

\* The function onReceivingValuesForEdit(request) returned is called when
\* the state of a request changes.  Before state 4 it returns at once.  In
\* state 4 the server has answered with a status and, for the ids of the
\* request it knows, their values; the request is then forgotten.
OnReceivingValuesForEdit ==
  /\ \E i \in 1..Len(requests) :
       \/ /\ requests[i].readyState < 3
          /\ requests' = [requests EXCEPT ![i].readyState = @ + 1]
          /\ UNCHANGED defaultsCache
       \/ \E status \in {200, 404} :
            \E known \in SUBSET (1..Len(requests[i].ids)) :
              \E info \in Infos :
                LET ids == requests[i].ids
                    named(id) == \E k \in known : ids[k] = id
                    keys == SelectSeq(ids, named)
                    defaults == [id \in Ids |-> info]
                IN /\ requests' = Without(requests, i)
                   /\ defaultsCache' =
                        IF status < 400
                        THEN RememberAll(defaultsCache, keys, defaults, clock)
                        ELSE defaultsCache
  /\ call' = <<>>
  /\ UNCHANGED <<clock, xhrs, handled, retried>>
  /\ UNCHANGED <<merging, stack>>
  /\ UNCHANGED <<parser, alphabet, examples, input, start, result,
                 unnormalized, normalized, earlier, commandLine>>

\* default(id, parameterName), called for an id the user named.
Default ==
  /\ \E id \in Ids :
       \E parameterName \in {"country", "serial"} :
         call' = << [name |-> "default", id |-> id,
                     parameterName |-> parameterName,
                     value |-> default(defaultsCache, id, parameterName,
                                       clock)] >>
  /\ UNCHANGED <<defaultsCache, clock, requests, xhrs, handled, retried>>
  /\ UNCHANGED <<merging, stack>>
  /\ UNCHANGED <<parser, alphabet, examples, input, start, result,
                 unnormalized, normalized, earlier, commandLine>>

\* Time passes, half the timeout at once.
Tick ==
  /\ clock < MaxClockTicks * (DEFAULTS_VALUE_CACHE_TIMEOUT_MILLISECONDS \div 2)
  /\ clock' = clock + DEFAULTS_VALUE_CACHE_TIMEOUT_MILLISECONDS \div 2
  /\ call' = <<>>
  /\ UNCHANGED <<defaultsCache, requests, xhrs, handled, retried>>
  /\ UNCHANGED <<merging, stack>>
  /\ UNCHANGED <<parser, alphabet, examples, input, start, result,
                 unnormalized, normalized, earlier, commandLine>>

InitDefaults == InitFrom(<<Scenario(parseFail, {}, {})>>)

NextDefaults ==
  MaybeFetchDefaultValues \/ OnReceivingValuesForEdit \/ Default \/ Tick

SpecDefaults == InitDefaults /\ [][NextDefaults]_vars

(***************************************************************************)
(* sendCommand: a command is posted to the server, and one of two handlers *)
(* is called when the server has answered.  xhrs lists the XMLHttpRequest  *)
(* objects made, each with the arguments of the sendCommand call that made *)
(* it; handled lists the calls of handlers.                                *)
(***************************************************************************)

MaxCommands == 3

\* new XMLHttpRequest(), opened and sent by sendCommand(command, failure,
\* success, url); retryOf is the request whose retry function made the
\* call, or 0.
sendCommand(command, failure, success, url, retryOf) ==
  [command |-> command, failure |-> failure, success |-> success,
   url |-> url, readyState |-> 1, status |-> 0, retryOf |-> retryOf]

\* onResponse without the test of readyState.
onResponseInAnyState(request) ==
  IF request.status < 400
  THEN <<[handler |-> request.success, retry |-> FALSE]>>
  ELSE <<[handler |-> request.failure, retry |-> TRUE]>>

\* onResponse: the handler it calls, and whether it passes a retry function.
onResponse(request) ==
  IF request.readyState # 4 THEN <<>>
  ELSE IF request.status < 400
  THEN <<[handler |-> request.success, retry |-> FALSE]>>
  ELSE <<[handler |-> request.failure, retry |-> TRUE]>>

\* The application sends a command.
SendCommand ==
  /\ Len(xhrs) < MaxCommands
  /\ \E arguments \in
          { <<"Launch Rocket", "defaultFailureHandler",
              "defaultSuccessHandler", "rocket/command">>,
            <<"Fuel Rocket", "failed", "succeeded", "rocket/other">> } :
       xhrs' = Append(xhrs, sendCommand(arguments[1], arguments[2],
                                        arguments[3], arguments[4], 0))
  /\ UNCHANGED <<handled, retried>>
  /\ UNCHANGED <<defaultsCache, clock, requests, call>>
  /\ UNCHANGED <<merging, stack>>
  /\ UNCHANGED <<parser, alphabet, examples, input, start, result,
                 unnormalized, normalized, earlier, commandLine>>

\* The state of a request changes and the browser calls onResponse: headers
\* or part of the answer have arrived, or the request is complete, with the
\* status of the answer (0 when there was none).
ReadyStateChange ==
  /\ \E i \in 1..Len(xhrs) :
       /\ xhrs[i].readyState < 4
       /\ \/ /\ xhrs[i].readyState < 3
             /\ xhrs' = [xhrs EXCEPT ![i].readyState = @ + 1]
          \/ \E status \in {0, 200, 399, 400, 500} :
               xhrs' = [xhrs EXCEPT ![i].readyState = 4, ![i].status = status]
       /\ handled' =
            handled \o
              [k \in 1..Len(onResponse(xhrs'[i])) |->
                 onResponse(xhrs'[i])[k] @@ [request |-> i]]
  /\ UNCHANGED retried
  /\ UNCHANGED <<defaultsCache, clock, requests, call>>
  /\ UNCHANGED <<merging, stack>>
  /\ UNCHANGED <<parser, alphabet, examples, input, start, result,
                 unnormalized, normalized, earlier, commandLine>>

\* A retry function that a failure handler was given is called:
\* function() { sendCommand(command, failure, success, url); }
Retry ==
  /\ Len(xhrs) < MaxCommands
  /\ \E k \in 1..Len(handled) :
       /\ handled[k].retry
       /\ xhrs' =
            Append(xhrs,
                   sendCommand(xhrs[handled[k].request].command,
                               xhrs[handled[k].request].failure,
                               xhrs[handled[k].request].success,
                               xhrs[handled[k].request].url,
                               handled[k].request))
  /\ retried' = retried + 1
  /\ UNCHANGED handled
  /\ UNCHANGED <<defaultsCache, clock, requests, call>>
  /\ UNCHANGED <<merging, stack>>
  /\ UNCHANGED <<parser, alphabet, examples, input, start, result,
                 unnormalized, normalized, earlier, commandLine>>

InitSend == InitFrom(<<Scenario(parseFail, {}, {})>>)

NextSend == SendCommand \/ ReadyStateChange \/ Retry

SpecSend == InitSend /\ [][NextSend]_vars

(***************************************************************************)
(* mergeFailures, applied to what two parsers returned as their failures.  *)
(***************************************************************************)

MaxFailureEnd == 1

\* Annotation objects that parsers made; the two failures may hold the same
\* object.
Help1 == Annotation(Label("help"), 0, 1, <<1>>)

Help2 == Annotation(Label("help"), 0, 1, <<2>>)

\* The failures a parser may return: none, or a Failure.
Failures ==
  { None } \cup
  { Some(Failure(annotations, completions, end, pause)) :
      annotations \in { <<>>, <<Help1>>, <<Help1, Help2>>, <<Help2>> },
      completions \in { <<>>, << <<"a">> >>, << <<"a", "b">>, <<"a">> >>,
                        << <<"b">>, <<"a">> >> },
      end \in 0..MaxFailureEnd,
      pause \in BOOLEAN }

\* One of two parsers is run and returns its failure.
ReturnFailure ==
  /\ \/ failure1' \in Failures /\ UNCHANGED failure2
     \/ failure2' \in Failures /\ UNCHANGED failure1
  /\ merged' = <<>>
  /\ UNCHANGED <<server, stack>>
  /\ UNCHANGED <<parser, alphabet, examples, input, start, result,
                 unnormalized, normalized, earlier, commandLine>>

\* mergeFailures(f1, f2) is called with them.
MergeFailures ==
  /\ merged = <<>>
  /\ merged' = <<mergeFailures(failure1, failure2)>>
  /\ UNCHANGED <<failure1, failure2, stack>>
  /\ UNCHANGED server
  /\ UNCHANGED <<parser, alphabet, examples, input, start, result,
                 unnormalized, normalized, earlier, commandLine>>

InitMerge == InitFrom(<<Scenario(parseFail, {}, {})>>)

NextMerge == ReturnFailure \/ MergeFailures

SpecMerge == InitMerge /\ [][NextMerge]_vars

(***************************************************************************)
(* parseSeparated                                                          *)
(***************************************************************************)

MaxSeparatedInput == 4

\* Elements and separators that are constants or choices of constants: an
\* element may be a prefix of another, may end like the separator, or may
\* be empty.
SeparatedScenarios ==
  << Scenario(parseSeparated("identity", A, Comma), {"a", ","}, {}),
     Scenario(parseSeparated("join",
                             parseChoice(<<A, ConstantOf(<<"a", "b">>)>>),
                             Comma),
              ABComma, {}),
     Scenario(parseSeparated("g", ConstantOf(<<"a", "b">>), A), AB, {}),
     Scenario(parseSeparated("identity", parseChoice(<<A, ConstantOf(<<>>)>>),
                             Comma),
              {"a", ","}, {}),
     Scenario(parseSeparated("identity",
                             parseChoice(<<A, ConstantOf(<<"a", ",">>)>>),
                             Comma),
              {"a", ","}, {}),
     Scenario(parseSeparated("join", A, ConstantOf(<<>>)), AB, {}) >>

InitSeparated == InitFrom(SeparatedScenarios)

NextSeparated == Keystroke(MaxSeparatedInput) \/ ParseFrom

SpecSeparated == InitSeparated /\ [][NextSeparated]_vars

(***************************************************************************)
(* The recursion of parseStar.  parseKleene() builds one level: the choice *)
(* of nothing or the parser followed by a function that calls parseKleene  *)
(* again when parseChain invokes it for a success of the parser.  stack    *)
(* holds the invocations of the parser parseKleene() built that have not   *)
(* returned, the outermost first: each with the Success it started from    *)
(* and the successes of the repeated parser that parseChain has yet to     *)
(* continue from.                                                          *)
(***************************************************************************)

MaxUnfoldInput == 3

MaxUnfoldings == 6

\* KleeneFrame for a chain function that is given the Success the enclosing
\* invocation started from.
KleeneFrameFromStart(parser0, inp, success) ==
  [success |-> start, successes1 |-> Parse(parser0, inp, start, <<>>).successes]

\* One invocation of what parseKleene() built, from a Success: parseChain
\* runs the repeated parser and will call the chain function for each of its
\* successes.
KleeneFrame(parser0, inp, success) ==
  [success |-> success, successes1 |-> Parse(parser0, inp, success, <<>>).successes]

\* The parsers repeated: some consume a character with every success, the
\* last two do not.
UnfoldScenarios ==
  << Scenario(parseStar("join", A), AB, {}),
     Scenario(parseStar("join", parseChoice(<<A, ConstantOf(<<"a", "b">>)>>)),
              AB, {}),
     Scenario(parseStar("identity", ConstantOf(<<"a", "a">>)), AB, {}),
     Scenario(parseStar("join", ConstantOf(<<>>)), AB, {}),
     Scenario(parseStar("join", parseOptional(A, WNull)), AB, {}) >>

\* The parser repeated by the parser parseStar returned.
Repeated == parser.parser.parser2.parser1

\* A character is typed and the parser parseStar returned is invoked on the
\* text from its beginning or from a later position.
InvokeStar ==
  /\ stack = <<>>
  /\ Len(input) < MaxUnfoldInput
  /\ \E c \in alphabet :
       /\ input' = Append(input, c)
       /\ \E position \in 0..Len(input') :
            /\ start' = Success(<<>>, Context, position, WNull)
            /\ stack' = <<KleeneFrame(Repeated, input',
                                      start')>>
  /\ UNCHANGED <<server, merging>>
  /\ UNCHANGED <<parser, alphabet, examples, result, unnormalized, normalized,
                 earlier, commandLine>>

\* The innermost invocation has a success of the repeated parser to continue
\* from.
CanUnfold ==
  /\ stack # <<>>
  /\ Len(stack) < MaxUnfoldings
  /\ stack[Len(stack)].successes1 # <<>>

\* parseChain calls the chain function for the next success of the repeated
\* parser: parseKleene() builds a level, which is invoked from that success.
Unfold ==
  /\ CanUnfold
  /\ stack' =
       Append([stack EXCEPT ![Len(stack)].successes1 = Tail(@)],
              KleeneFrame(Repeated, input,
                          Head(stack[Len(stack)].successes1)))
  /\ UNCHANGED <<server, merging>>
  /\ UNCHANGED <<parser, alphabet, examples, input, start, result,
                 unnormalized, normalized, earlier, commandLine>>

\* parseChain has continued from every success: the invocation returns.
Return ==
  /\ stack # <<>>
  /\ stack[Len(stack)].successes1 = <<>>
  /\ stack' = SubSeq(stack, 1, Len(stack) - 1)
  /\ UNCHANGED <<server, merging>>
  /\ UNCHANGED <<parser, alphabet, examples, input, start, result,
                 unnormalized, normalized, earlier, commandLine>>

\* Nothing is parsed until InvokeStar: result stays what the repeated parser
\* returns on no input.
InitUnfold ==
  \E i \in 1..Len(UnfoldScenarios) :
    InitScenario(UnfoldScenarios[i],
                 Parse(UnfoldScenarios[i].parser.parser.parser2.parser1, <<>>,
                       SuccessInitial(Context), <<>>))

NextUnfold == InvokeStar \/ Unfold \/ Return

\* An invocation that can go on does go on: Return and Unfold are weakly
\* fair, the fairness of Unfold written with its guard CanUnfold.
SpecUnfold ==
  /\ InitUnfold
  /\ [][NextUnfold]_vars
  /\ WF_vars(Return)
  /\ ([]<>(~CanUnfold) \/ []<><<Unfold>>_vars)

(***************************************************************************)
(* Annotated parsers in sequence                                           *)
(***************************************************************************)

MaxAnnotatedInput == 3

\* A parser with an annotation followed by a parser that makes its own
\* Failure: one with completions whatever was parsed (as
\* parseNonNegativeInteger with DIGIT_LIST), one that offers them only for a
\* failure at its start (as parseWhitespace), a parseMaybe, and a parser
\* between two annotated ones.
AnnotatedScenarios ==
  << Scenario(parseSequence("f", <<annotate(Label("first"), A),
                                   WithFixedCompletions(B)>>), AB, {}),
     Scenario(parseThen("f", annotate(Label("first"), A),
                        WithCompletionsAtStart(B)), AB, {}),
     Scenario(parseThen("f", annotate(Label("first"), A), MaybeA(B)), AB, {}),
     Scenario(parseSequence("f", <<annotate(Label("first"), A),
                                   WithFixedCompletions(B),
                                   annotate(Label("last"), A)>>), AB, {}),
     Scenario(parseChain("f", annotate(Label("first"), parseChoice(<<A, B>>)),
                         [kind |-> "again"]), AB, {}) >>

InitAnnotated == InitFrom(AnnotatedScenarios)

NextAnnotated == Keystroke(MaxAnnotatedInput) \/ ParseFrom

SpecAnnotated == InitAnnotated /\ [][NextAnnotated]_vars

(***************************************************************************)
(* Properties                                                              *)
(***************************************************************************)

\* C1: if a parser returns a Failure, its end is at least the greatest end of
\* the Successes returned with it; if it returns no Failure, it returns at
\* least one Success.
C1_FailureIsFurthest ==
  /\ result.failure # None =>
       result.failure[1].end >= furthestSuccess(result.successes)
  /\ result.failure = None => result.successes # <<>>

\* The members of a list.
Range(list) == {list[i] : i \in 1..Len(list)}

\* C3: parseAlternatives(p1, p2) runs both parsers from the same starting
\* Success and returns the successes of p1 followed by those of p2.  A
\* failure of p1 or p2 is a candidate if and only if its end is at least the
\* furthest end among these successes: a failure is returned exactly when
\* there is a candidate, it ends where the furthest candidate ends and
\* carries the annotations and pause of the candidates that end there, and
\* so it never ends behind a success.
C3_Alternatives ==
  parser.type = "alternatives" =>
    LET r1 == Parse(parser.parser1, input, start, <<1>>)
        r2 == Parse(parser.parser2, input, start, <<2>>)
        successes == r1.successes \o r2.successes
        candidates ==
          {f \in Range(r1.failure) \cup Range(r2.failure) :
             \A s \in Range(successes) : f.end >= s.end}
    IN /\ result.successes = successes
       /\ result.failure = None <=> candidates = {}
       /\ result.failure # None =>
            LET failure == result.failure[1]
            IN /\ \A s \in Range(successes) : failure.end >= s.end
               /\ \A c \in candidates : c.end <= failure.end
               /\ \E c \in candidates : c.end = failure.end
               /\ \A c \in candidates :
                    c.end = failure.end =>
                      /\ Range(c.annotations) \subseteq
                           Range(failure.annotations)
                      /\ c.pause => failure.pause

\* One alternative's failure lies behind a success and is dropped while the
\* other's, at the furthest success, is returned.
C3_Witness ==
  /\ parser.type = "alternatives"
  /\ LET r1 == Parse(parser.parser1, input, start, <<1>>)
         r2 == Parse(parser.parser2, input, start, <<2>>)
     IN /\ r1.failure # None
        /\ r2.failure # None
        /\ r2.successes # <<>>
        /\ r1.failure[1].end < furthestSuccess(r2.successes)
        /\ r2.failure[1].end = furthestSuccess(r2.successes)
        /\ result.failure = r2.failure

\* The successes parseChain must return for the successes of parser1 from
\* the i-th on: for each, the successes of its continuation, with the merged
\* witness.
RECURSIVE ChainedSuccesses(_, _, _)
ChainedSuccesses(successes1, i, path) ==
  IF i > Len(successes1) THEN <<>>
  ELSE LET s1 == successes1[i]
           r2 == Parse(ChainParser(parser.chain, s1), input, s1,
                       path \o <<i>>)
       IN [k \in 1..Len(r2.successes) |->
             [annotations |-> r2.successes[k].annotations,
              context |-> r2.successes[k].context,
              end |-> r2.successes[k].end,
              witness |-> MergeWitnesses(parser.mergeWitnesses, s1.witness,
                                         r2.successes[k].witness)]]
          \o ChainedSuccesses(successes1, i + 1, path)

\* C4: the successes parseChain(mergeWitnesses, parser1, chain) returns are
\* exactly, in order, one for every pair (s1, s2) of a success s1 of parser1
\* and a success s2 of chain(s1) run from s1, with s2's end, annotations and
\* context and the witness mergeWitnesses(s1.witness, s2.witness).
C4_ChainSuccesses ==
  parser.type = "chain" =>
    result.successes =
      ChainedSuccesses(Parse(parser.parser1, input, start, <<0>>).successes,
                       1, <<>>)

\* Three first-stage successes whose continuations depend on them, two of
\* which succeed.
C4_Witness ==
  /\ parser.type = "chain"
  /\ parser.chain.kind = "again"
  /\ Len(Parse(parser.parser1, input, start, <<0>>).successes) = 3
  /\ Len(result.successes) = 2
  /\ result.successes[1].end # result.successes[2].end

\* The ways to match the parsers of a list one after the other, from the
\* i-th on and from a Success: for each, in order, where it ends and the
\* witnesses of the parsers in the order of the list.
RECURSIVE SequenceRuns(_, _, _, _)
SequenceRuns(parsers, i, success, witnesses) ==
  IF i > Len(parsers) THEN << [end |-> success.end, witnesses |-> witnesses] >>
  ELSE LET r == Parse(parsers[i], input, success, <<>>)
           runs(k) == SequenceRuns(parsers, i + 1, r.successes[k],
                                   Append(witnesses, r.successes[k].witness))
           RECURSIVE Concat(_)
           Concat(k) ==
             IF k > Len(r.successes) THEN <<>> ELSE runs(k) \o Concat(k + 1)
       IN Concat(1)

\* C5: every success of parseSequence(mergeWitnesses, p1, ..., pn) has the
\* witness mergeWitnesses(w1, ..., wn), where wi is the witness of pi's match
\* and the arguments are in the order of the text.
C5_SequenceWitnessOrder ==
  parser.type = "sequence" =>
    LET runs == SequenceRuns(parser.parsers, 1, start, <<>>)
    IN /\ Len(result.successes) = Len(runs)
       /\ \A k \in 1..Len(runs) :
            /\ result.successes[k].end = runs[k].end
            /\ result.successes[k].witness =
                 MergeAll(parser.mergeWitnesses, runs[k].witnesses)

\* sequence(f, constant("x"), constant("y")) on "xy" produces f("x", "y").
C5_Witness ==
  /\ parser.type = "sequence"
  /\ parser.parsers = <<X, Y>>
  /\ input = <<"x", "y">>
  /\ start.end = 0
  /\ Len(result.successes) = 1
  /\ result.successes[1].end = 2
  /\ result.successes[1].witness =
       WApply("f", <<WString(<<"x">>), WString(<<"y">>)>>)

\* The constants of a parseChoice over constants, in the order given.
RECURSIVE ChoiceConstants(_)
ChoiceConstants(p) ==
  IF p.type = "fail" THEN <<>>
  ELSE Append(ChoiceConstants(p.parser1), p.parser2.constant)

ProperPrefix(prefix, string) ==
  Len(prefix) < Len(string) /\ StartsWith(string, prefix)

\* The text the parser was started on: the input from the start position.
Text == Slice(input, start.end)

\* The unmatched suffixes of the constants of which the text is a proper
\* prefix, in the order of the alternatives.
RemainingSuffixes(constants) ==
  LET matched(c) == ProperPrefix(Text, c)
      alive == SelectSeq(constants, matched)
  IN [k \in 1..Len(alive) |-> Slice(alive[k], Len(Text))]

\* The text is a proper prefix of several different constants.
PrefixOfSeveral(constants) ==
  \E c1, c2 \in Range(constants) :
    c1 # c2 /\ ProperPrefix(Text, c1) /\ ProperPrefix(Text, c2)

\* C6 as stated: parseChoice over constants, on an input that is a proper
\* prefix of several of them, yields no successes and one failure at the end
\* of the input whose completions are the remaining suffixes of the
\* alternatives that matched that far, in the order of the alternatives.
C6_CompletionsInGivenOrder ==
  LET constants == ChoiceConstants(parser)
  IN PrefixOfSeveral(constants) =>
       /\ result.successes = <<>>
       /\ result.failure # None
       /\ result.failure[1].end = Len(input)
       /\ result.failure[1].completions = RemainingSuffixes(constants)

\* C6 as amended: on such an input parseChoice yields one failure at the end
\* of the input whose completions are the remaining suffixes of the
\* alternatives that matched that far, in increasing code-unit order, each
\* once, without those that properly extend another one; it yields one
\* success for every alternative that is a prefix of the input, and so none
\* when there is no such alternative.
C6_ChoiceCompletions ==
  LET constants == ChoiceConstants(parser)
      suffixes == Range(RemainingSuffixes(constants))
      isPrefix(c) == StartsWith(Text, c)
      matched == SelectSeq(constants, isPrefix)
  IN PrefixOfSeveral(constants) =>
       /\ Len(result.successes) = Len(matched)
       /\ \A k \in 1..Len(matched) :
            /\ result.successes[k].end = start.end + Len(matched[k])
            /\ result.successes[k].witness = WString(matched[k])
       /\ result.failure # None
       /\ result.failure[1].end = Len(input)
       /\ LET completions == result.failure[1].completions
          IN /\ \A k \in 1..(Len(completions) - 1) :
                  StringLess(completions[k], completions[k + 1])
             /\ Range(completions) =
                  {s \in suffixes : \A o \in suffixes : ~ProperPrefix(o, s)}

\* choice(constant("cat"), constant("car")) on "ca": no successes and one
\* failure with end 2 and completions ["r", "t"].
C6_Witness ==
  /\ ChoiceConstants(parser) = << <<"c", "a", "t">>, <<"c", "a", "r">> >>
  /\ input = <<"c", "a">>
  /\ start.end = 0
  /\ result.successes = <<>>
  /\ result.failure # None
  /\ result.failure[1].end = 2
  /\ result.failure[1].completions = << <<"r">>, <<"t">> >>

\* The parser that parseStar(mergeWitnesses, parser) repeats.
StarElement(p) == p.parser.parser2.parser1

\* The constants an element matches: a constant, or a choice of constants.
ElementConstants(element) ==
  IF element.type = "constant" THEN <<element.constant>>
  ELSE ChoiceConstants(element)

\* The ways to write a text as constants of a set one after the other.
RECURSIVE Splits(_, _)
Splits(text, constants) ==
  IF text = <<>> THEN {<<>>}
  ELSE UNION {
         {<<c>> \o rest : rest \in Splits(Slice(text, Len(c)), constants)} :
           c \in {x \in constants : x # <<>> /\ StartsWith(text, x)}}

\* C7: parseStar(join, constant(c)) on an input that consists of n >= 0
\* repetitions of c yields a success whose end is the input length and whose
\* witness is join applied to the list of the n element witnesses in order
\* (also when the element is a choice of constants).
C7_StarRepetitions ==
  \A split \in Splits(Text, Range(ElementConstants(StarElement(parser)))) :
    \E k \in 1..Len(result.successes) :
      /\ result.successes[k].end = Len(input)
      /\ result.successes[k].witness =
           Transform(parser.transform,
                     WArray([i \in 1..Len(split) |-> WString(split[i])]))

\* star(join, constant("ab")) on "abab": a success with end 4 and witness
\* "abab".
C7_Witness ==
  /\ StarElement(parser) = ConstantOf(<<"a", "b">>)
  /\ parser.transform = "join"
  /\ input = <<"a", "b", "a", "b">>
  /\ start.end = 0
  /\ \E k \in 1..Len(result.successes) :
       /\ result.successes[k].end = 4
       /\ result.successes[k].witness = WString(<<"a", "b", "a", "b">>)

\* The text is repetitions of the constant c followed by an incomplete c:
\* the length of the complete repetitions, or -1.
CompleteRepetitions(c) ==
  LET fits(m) ==
        /\ Splits(SubSeq(Text, 1, m), {c}) # {}
        /\ Len(Text) > m
        /\ ProperPrefix(Slice(Text, m), c)
  IN IF \E m \in 0..Len(Text) : fits(m)
     THEN CHOOSE m \in 0..Len(Text) : fits(m)
     ELSE -1

\* C8 as stated: parseStar(join, constant(c)) on complete repetitions of c
\* followed by an incomplete trailing c yields a success at the end of the
\* complete repetitions and a failure at the end of the input with pause =
\* true.
C8_TrailingElementPauses ==
  StarElement(parser).type = "constant" =>
    LET m == CompleteRepetitions(StarElement(parser).constant)
    IN m >= 0 =>
         /\ \E k \in 1..Len(result.successes) :
              result.successes[k].end = start.end + m
         /\ result.failure # None
         /\ result.failure[1].end = Len(input)
         /\ result.failure[1].pause = TRUE

\* C8 as amended: the failure at the end of the input has pause = false; its
\* completions are the rest of the incomplete element.
C8_TrailingElementFailure ==
  StarElement(parser).type = "constant" =>
    LET c == StarElement(parser).constant
        m == CompleteRepetitions(c)
    IN m >= 0 =>
         /\ \E k \in 1..Len(result.successes) :
              result.successes[k].end = start.end + m
         /\ result.failure # None
         /\ result.failure[1].end = Len(input)
         /\ result.failure[1].pause = FALSE
         /\ result.failure[1].completions = <<Slice(c, Len(Text) - m)>>

\* star(join, constant("ab")) on "ababa": a success at 4 and a failure at 5
\* with pause = false and completions ["b"].
C8_Witness ==
  /\ StarElement(parser) = ConstantOf(<<"a", "b">>)
  /\ input = <<"a", "b", "a", "b", "a">>
  /\ start.end = 0
  /\ \E k \in 1..Len(result.successes) : result.successes[k].end = 4
  /\ result.failure # None
  /\ result.failure[1].end = 5
  /\ result.failure[1].pause = FALSE
  /\ result.failure[1].completions = << <<"b">> >>

\* The constants and the separator string of a parseSubset parser.
SubsetConstants(p) == Range(p.parser2.chain.choices)

SubsetSeparator(p) == p.parser2.chain.parseSeparator.constant

\* The lists, in any order, of pairwise distinct members of a set.
RECURSIVE DistinctLists(_)
DistinctLists(members) ==
  {<<>>} \cup UNION {{<<c>> \o rest : rest \in DistinctLists(members \ {c})} :
                       c \in members}

RECURSIVE JoinWith(_, _)
JoinWith(list, separator) ==
  IF Len(list) <= 1 THEN JoinStrings([i \in 1..Len(list) |-> WString(list[i])])
  ELSE Head(list) \o separator \o JoinWith(Tail(list), separator)

\* The separator-joined lists of pairwise distinct members of the constants.
JoinedLists(p) ==
  {JoinWith(list, SubsetSeparator(p)) : list \in DistinctLists(SubsetConstants(p))}

\* C9: parseSubset(constants, separator) returns a success that consumes the
\* whole input if and only if the input is a (possibly empty)
\* separator-joined list, in any order, of pairwise distinct members of
\* constants.  Every success covers a text that is its witness joined by the
\* separator, and the witness lists members of constants without a repeat.
C9_Subset ==
  /\ (\E k \in 1..Len(result.successes) :
        result.successes[k].end = Len(input))
       <=> Text \in JoinedLists(parser)
  /\ \A k \in 1..Len(result.successes) :
       LET success == result.successes[k]
           list == [i \in 1..Len(success.witness.l) |-> success.witness.l[i].s]
       IN /\ success.witness.t = "array"
          /\ list \in DistinctLists(SubsetConstants(parser))
          /\ SubSeq(input, start.end + 1, success.end) =
               JoinWith(list, SubsetSeparator(parser))

\* subset(["a","b","c"], constant(",")) accepts "c,a,b" with the witness
\* ["c","a","b"].
C9_Witness ==
  /\ SubsetConstants(parser) = {<<"a">>, <<"b">>, <<"c">>}
  /\ input = <<"c", ",", "a", ",", "b">>
  /\ start.end = 0
  /\ \E k \in 1..Len(result.successes) :
       /\ result.successes[k].end = 5
       /\ result.successes[k].witness =
            WArray(<<WString(<<"c">>), WString(<<"a">>), WString(<<"b">>)>>)

\* The strings of a list that have no other string of the list as a proper
\* prefix.
WithoutProperPrefix(list) ==
  {x \in Range(list) : ~\E y \in Range(list) : ProperPrefix(y, x)}

\* The arrays that hold the elements of a list in some order.
Rearrangements(list) ==
  {[i \in 1..Len(list) |-> list[f[i]]] : f \in Permutations(1..Len(list))}

\* C10: normalizeCompletions(xs) returns, without duplicates and in sorted
\* order, exactly the strings of xs that do not have another string of xs as
\* a proper prefix; no element of the result properly extends another, the
\* result is the same for every permutation of xs, and normalizing the
\* result again returns it unchanged.
C10_NormalizeCompletions ==
  /\ normalized = normalizeCompletions(unnormalized)
  /\ Range(normalized) = WithoutProperPrefix(unnormalized)
  /\ \A i \in 1..Len(normalized) - 1 :
       StringLess(normalized[i], normalized[i + 1])
  /\ \A i, j \in 1..Len(normalized) :
       ~ProperPrefix(normalized[i], normalized[j])
  /\ \A xs \in Rearrangements(unnormalized) :
       normalizeCompletions(xs) = normalized
  /\ normalizeCompletions(normalized) = normalized

\* ["b", "ab", "a", "b"] is normalized to ["a", "b"].
C10_Witness ==
  /\ unnormalized = << <<"b">>, <<"a", "b">>, <<"a">>, <<"b">> >>
  /\ normalized = << <<"a">>, <<"b">> >>

\* The annotations of a failure, none when there is no failure.
FailureAnnotations(failure) ==
  IF failure = None THEN <<>> ELSE failure[1].annotations

\* Every annotation of one list has an equal (Annotation.equals) in another.
CoveredBy(annotations1, annotations2) ==
  \A i \in 1..Len(annotations1) : \E j \in 1..Len(annotations2) :
    equals(annotations1[i], annotations2[j])

SameAnnotationSets(annotations1, annotations2) ==
  CoveredBy(annotations1, annotations2) /\ CoveredBy(annotations2, annotations1)

NoEqualAnnotations(annotations) ==
  \A i, j \in 1..Len(annotations) :
    i # j => ~equals(annotations[i], annotations[j])

\* C11: mergeAnnotations(a, b) is the set union of a and b by structural
\* equality of annotations: the result holds the annotations of a and of b
\* and no two structurally equal ones, mergeAnnotations(a, a) equals a as a
\* set, and mergeAnnotations(a, b) equals mergeAnnotations(b, a) as a set.
\* Stated for the annotation lists that parseAlternatives merges: those of
\* the failures of its two parsers.
C11_MergeAnnotationsStructural ==
  parser.type = "alternatives" =>
    LET a == FailureAnnotations(
               Parse(parser.parser1, input, start, <<1>>).failure)
        b == FailureAnnotations(
               Parse(parser.parser2, input, start, <<2>>).failure)
    IN /\ SameAnnotationSets(mergeAnnotations(a, b), a \o b)
       /\ NoEqualAnnotations(mergeAnnotations(a, b))
       /\ SameAnnotationSets(mergeAnnotations(a, a), a)
       /\ SameAnnotationSets(mergeAnnotations(a, b), mergeAnnotations(b, a))

\* C12 as stated: parseFail, for every input and starting Success, returns
\* no successes and one Failure at the current position with empty
\* annotations, empty completions and pause = true.
C12_FailPauses ==
  Parse(parseFail, input, start, <<>>) =
    Result(<<>>, Some(Failure(<<>>, <<>>, start.end, TRUE)))

\* C12 as amended: the Failure has pause = false.
C12_Fail ==
  Parse(parseFail, input, start, <<>>) =
    Result(<<>>, Some(Failure(<<>>, <<>>, start.end, FALSE)))

\* parseFail invoked on "ab" from position 1 returned a failure at 1.
C12_Witness ==
  /\ parser = parseFail
  /\ input = <<"a", "b">>
  /\ start.end = 1
  /\ result.successes = <<>>
  /\ result.failure = Some(Failure(<<>>, <<>>, 1, FALSE))

\* What the parser that parseWithCompletions wraps returns, and what
\* makeCompletions returns for it.
Wrapped == Parse(parser.parser, input, start, <<1>>)

MadeCompletions ==
  MakeCompletions(parser.makeCompletions, start.context, Wrapped.failure,
                  start.end)

\* C13: parseWithCompletions(makeCompletions, parser) returns parser's
\* successes unchanged and (a) if parser returned a failure, a Failure with
\* the same end and annotations, the completions makeCompletions(context,
\* failure, start) and pause = false; (b) if parser returned no failure and
\* makeCompletions returns an empty list, no failure; (c) if parser returned
\* no failure and makeCompletions returns a non-empty list, a Failure at the
\* furthest success's end with those completions and pause = false.
C13_WithCompletions ==
  parser.type = "withCompletions" =>
    /\ result.successes = Wrapped.successes
    /\ Wrapped.failure # None =>
         /\ result.failure # None
         /\ result.failure[1].end = Wrapped.failure[1].end
         /\ result.failure[1].annotations = Wrapped.failure[1].annotations
         /\ result.failure[1].completions = MadeCompletions
         /\ result.failure[1].pause = FALSE
    /\ (Wrapped.failure = None /\ MadeCompletions = <<>>) =>
         result.failure = None
    /\ (Wrapped.failure = None /\ MadeCompletions # <<>>) =>
         /\ result.failure # None
         /\ result.failure[1].end = MaxEnd(Wrapped.successes)
         /\ result.failure[1].completions = MadeCompletions
         /\ result.failure[1].pause = FALSE

\* Case (a): the wrapped parser failed with pause = true and completions of
\* its own; the failure returned has the made completions and pause = false.
C13_Witness ==
  /\ parser.type = "withCompletions"
  /\ Wrapped.failure # None
  /\ Wrapped.failure[1].pause = TRUE
  /\ MadeCompletions # <<>>
  /\ result.failure # None
  /\ result.failure[1].completions = MadeCompletions
  /\ result.failure[1].completions # Wrapped.failure[1].completions
  /\ result.failure[1].pause = FALSE

\* The successes of a list that end after the start position, in order.
ConsumingSuccesses(successes) ==
  LET consumes(s) == s.end > start.end IN SelectSeq(successes, consumes)

\* C14: parseNonEmpty(parser) returns exactly parser's successes that
\* consumed at least one character, in order; parser's failure, if any, is
\* returned unchanged; and a new failure is surfaced only when parser
\* returned no failure and all of its successes were zero-width.
C14_NonEmpty ==
  parser.type = "nonEmpty" =>
    /\ result.successes = ConsumingSuccesses(Wrapped.successes)
    /\ Wrapped.failure # None => result.failure = Wrapped.failure
    /\ (Wrapped.failure = None /\ result.failure # None) =>
         ConsumingSuccesses(Wrapped.successes) = <<>>

\* An annotation list is another one with one new Annotation in front that
\* covers [from, to) and carries a label.
PrependsOne(annotations, inner, from, to, label) ==
  /\ Len(annotations) = Len(inner) + 1
  /\ Tail(annotations) = inner
  /\ Head(annotations).start = from
  /\ Head(annotations).end = to
  /\ Head(annotations).label = label
  /\ \A i \in 1..Len(inner) : inner[i].id # Head(annotations).id

\* C15: annotate(label, parser) started at position p returns every success
\* s of parser with the same end, context and witness and with exactly one
\* new Annotation prepended, covering [p, s.end) and labelled with label plus
\* a witness field equal to s.witness; it returns a failure f with the same
\* end, completions and pause and with exactly one new Annotation prepended,
\* covering [p, f.end) and carrying the unmodified label.
C15_Annotate ==
  parser.type = "annotate" =>
    /\ Len(result.successes) = Len(Wrapped.successes)
    /\ \A k \in 1..Len(Wrapped.successes) :
         LET s == Wrapped.successes[k]
             annotated == result.successes[k]
         IN /\ annotated.end = s.end
            /\ annotated.context = s.context
            /\ annotated.witness = s.witness
            /\ PrependsOne(annotated.annotations, s.annotations, start.end,
                           s.end,
                           [tag |-> parser.label.tag, witness |-> s.witness])
    /\ (result.failure = None) = (Wrapped.failure = None)
    /\ Wrapped.failure # None =>
         LET f == Wrapped.failure[1]
             annotated == result.failure[1]
         IN /\ annotated.end = f.end
            /\ annotated.completions = f.completions
            /\ annotated.pause = f.pause
            /\ PrependsOne(annotated.annotations, f.annotations, start.end,
                           f.end, parser.label)

\* annotate(outer, star(join, constant("b"))) on "b": the success of "b"
\* carries the outer annotation of [0, 1) with the witness "b", and the
\* failure at 1 carries the outer annotation of [0, 1) with the unmodified
\* label.
C15_Witness ==
  /\ parser = Annotated(parseStar("join", B))
  /\ input = <<"b">>
  /\ start.end = 0
  /\ \E k \in 1..Len(result.successes) :
       /\ result.successes[k].end = 1
       /\ Len(result.successes[k].annotations) = 1
       /\ result.successes[k].annotations[1].start = 0
       /\ result.successes[k].annotations[1].end = 1
       /\ result.successes[k].annotations[1].label =
            [tag |-> "outer", witness |-> WString(<<"b">>)]
  /\ result.failure # None
  /\ result.failure[1].end = 1
  /\ Len(result.failure[1].annotations) = 1
  /\ result.failure[1].annotations[1].start = 0
  /\ result.failure[1].annotations[1].label = Label("outer")

CommandText == before \o after

WholeTextSuccesses ==
  LET r == parseCommandText(CommandText)
      whole(s) == s.end = Len(CommandText)
  IN SelectSeq(r.successes, whole)

\* C17: pressing Enter calls processor.finish if and only if the parse of
\* the full command text has a success whose end is the text length, and
\* then exactly once, with the witness of the first such success; no other
\* key calls it.  Enter leaves the text as it is.
C17_EnterFinishesValid ==
  /\ event.key = "Enter" =>
       /\ CommandText = event.before \o event.after
       /\ (finished # <<>>) = (WholeTextSuccesses # <<>>)
       /\ WholeTextSuccesses # <<>> =>
            finished = <<WholeTextSuccesses[1].witness>>
  /\ event.key # "Enter" => finished = <<>>

\* Enter was pressed on "go up", which parses: finish got its witness.
\* (Enter on a text that does not parse is the state with event.key =
\* "Enter" and finished empty.)
C17_Witness ==
  /\ event.key = "Enter"
  /\ CommandText = Go \o <<" ">> \o Up
  /\ Len(finished) = 1
  /\ finished[1].t = "f"

\* The texts that complete appended one after another, up to the k-th.
RECURSIVE AppendedText(_, _)
AppendedText(appended, k) ==
  IF k = 0 THEN <<>>
  ELSE AppendedText(appended, k - 1) \o appended[k].text

\* The failure that the parse of a text returns at the end of the text, as a
\* list of none or one.
FailureAtEnd(text) ==
  LET r == parseCommandText(text)
  IN IF r.failure # None /\ r.failure[1].end = Len(text) THEN r.failure
     ELSE None

\* C18: complete appends text to the command only from failures with
\* pause = false: every piece it appended is non-empty and was taken where
\* the failure at the end of the text so far had pause = false; when Tab is
\* pressed and the failure at the caret has pause = true, the text stays as
\* it was; and what Tab put before the caret is the text that was there
\* followed by the pieces appended.
C18_NoAdvancePastPause ==
  /\ \A k \in 1..Len(event.appended) :
       LET sofar == FailureAtEnd(event.before
                                 \o AppendedText(event.appended, k - 1))
       IN /\ event.appended[k].text # <<>>
          /\ event.appended[k].pause = FALSE
          /\ sofar # None
          /\ sofar[1].pause = FALSE
  /\ event.key = "Tab" =>
       /\ (FailureAtEnd(event.before) # None
           /\ FailureAtEnd(event.before)[1].pause)
            => (event.appended = <<>>
                /\ CommandText = event.before \o event.after)
       /\ event.appended # <<>> =>
            before = event.before
                       \o AppendedText(event.appended, Len(event.appended))
       /\ event.appended = <<>> => CommandText = event.before \o event.after

\* Tab was pressed after "go " where the failure has pause = true and one
\* completion, "up": nothing was inserted.
C18_Witness ==
  /\ event.key = "Tab"
  /\ event.before = Go \o <<" ">>
  /\ FailureAtEnd(event.before) # None
  /\ FailureAtEnd(event.before)[1].pause
  /\ FailureAtEnd(event.before)[1].completions = <<Up>>
  /\ before = Go \o <<" ">>
  /\ after = <<>>

\* A space is valid input at the caret the last key found: the text before
\* the caret followed by a space parses to its end or fails only there.
SpaceWasValid ==
  LET text == event.before \o <<" ">>
      r == parseCommandText(text)
  IN \/ \E k \in 1..Len(r.successes) : r.successes[k].end = Len(text)
     \/ r.failure # None /\ r.failure[1].end >= Len(text)

\* C19: pressing SPC inserts a space when a space is valid input at the
\* caret, and then nothing else is inserted and no completion is run; only
\* if the space is not valid input is completion run instead.
C19_SpaceOrCompletion ==
  event.key = " " =>
    IF SpaceWasValid
    THEN /\ before = event.before \o <<" ">>
         /\ after = event.after
         /\ popup = <<>>
         /\ event.appended = <<>>
    ELSE LET completed == complete(event.before, event.after, <<>>)
         IN /\ before = completed.before
            /\ after = completed.after
            /\ popup = completed.popup
            /\ event.appended = completed.appended

\* Whether literal occurs in text at 0-based offset position.
OccursAt(literal, text, position) ==
  /\ position + Len(literal) <= Len(text)
  /\ SubSeq(text, position + 1, position + Len(literal)) = literal

\* The length of the longest common prefix of literal and the text from
\* position.
CommonPrefixLength(literal, text, position) ==
  CHOOSE k \in 0..Len(literal) :
    /\ OccursAt(SubSeq(literal, 1, k), text, position)
    /\ \A m \in (k + 1)..Len(literal) :
         ~OccursAt(SubSeq(literal, 1, m), text, position)

\* C2: parseConstant(literal, witness) started at position p returns, if the
\* input contains literal at p, exactly one Success with end p + len(literal)
\* and the given witness, and no Failure; otherwise no Success and one Failure
\* whose end is p plus the length of the longest common prefix of literal and
\* the input from p, whose completions are the unmatched suffix of literal
\* alone, and whose pause is false.
C2_ConstantContract ==
  parser.type = "constant" =>
    LET literal == parser.constant
        p == start.end
        n == CommonPrefixLength(literal, input, p)
    IN IF OccursAt(literal, input, p)
       THEN /\ Len(result.successes) = 1
            /\ result.successes[1].end = p + Len(literal)
            /\ result.successes[1].witness = parser.witness
            /\ result.failure = None
       ELSE /\ result.successes = <<>>
            /\ result.failure # None
            /\ result.failure[1].end = p + n
            /\ result.failure[1].completions = <<Slice(literal, n)>>
            /\ result.failure[1].pause = FALSE

\* constant("launch") on "lau": a failure with end 3 and completions ["nch"].
C2_Witness ==
  /\ parser.type = "constant"
  /\ parser.constant = Launch
  /\ input = <<"l", "a", "u">>
  /\ start.end = 0
  /\ result.successes = <<>>
  /\ result.failure # None
  /\ result.failure[1].end = 3
  /\ result.failure[1].completions = << <<"n", "c", "h">> >>

(***************************************************************************)
(* parseKeywordParameters: what a success holds                            *)
(***************************************************************************)

\* The chain function of the parser parseKeywordParameters returned: it
\* holds the declared specifications and the names that are required.
Declared ==
  IF parser.type = "chain" THEN parser.chain ELSE parser.parser1.parser2.chain

\* A [name, value] pair whose name is one of those given.
NameAndValue(w, names) ==
  /\ w.t = "array"
  /\ Len(w.l) = 2
  /\ w.l[1].t = "string"
  /\ \E i \in 1..Len(names) : names[i] = w.l[1].s

\* C20: every success of parseKeywordParameters(commandName, optional,
\* preferred, required) has as witness a list of [name, value] pairs; the
\* names are declared parameter names, no name occurs twice, and every
\* preferred and every required name occurs, so that no success is returned
\* while one of them is missing.
C20_KeywordParameters ==
  \A k \in 1..Len(result.successes) :
    LET w == result.successes[k].witness
        declaredNames ==
          [i \in 1..Len(Declared.parameterSpecs) |->
             Declared.parameterSpecs[i].name]
    IN /\ w.t = "array"
       /\ \A i \in 1..Len(w.l) : NameAndValue(w.l[i], declaredNames)
       /\ \A i, j \in 1..Len(w.l) : i # j => w.l[i].l[1] # w.l[j].l[1]
       /\ \A n \in 1..Len(Declared.requiredNames) :
            \E i \in 1..Len(w.l) :
              w.l[i].l[1] = WString(Declared.requiredNames[n])

\* An optional parameter and then the required one have been given, and the
\* one success holds both pairs in the order they were typed.
C20_Witness ==
  /\ Len(Declared.parameterSpecs) = 2
  /\ Declared.requiredNames = << <<"b">> >>
  /\ input = <<" ", "a", " ", "x", " ", "b", " ", "y">>
  /\ start.end = 0
  /\ Len(result.successes) = 1
  /\ result.successes[1].end = Len(input)
  /\ result.successes[1].witness =
       WArray(<< WArray(<<WString(<<"a">>), WString(<<"x">>)>>),
                 WArray(<<WString(<<"b">>), WString(<<"y">>)>>) >>)

(***************************************************************************)
(* The cache of default values                                             *)
(***************************************************************************)

\* The requests of a list that ask for an id.
Outstanding(list, id) ==
  {i \in 1..Len(list) : \E k \in 1..Len(list[i].ids) : list[i].ids[k] = id}

\* An id whose entry holds the time it was marked pending.
MarkedPending(cache, id) ==
  id \in DOMAIN cache /\ "pending" \in DOMAIN cache[id]

\* An id whose entry was received less than the timeout ago.
Unexpired(cache, id, now) ==
  /\ id \in DOMAIN cache
  /\ "received" \in DOMAIN cache[id]
  /\ now - cache[id].received < 300000

\* The last handler that ran was maybeFetchDefaultValues.
Fetching == call # <<>> /\ call[1].name = "maybeFetchDefaultValues"

Editing(id) ==
  << Annotation([tag |-> "command-name", name |-> "Edit Rocket",
                 witness |-> WString(<<>>)], 0, 1, <<1>>),
     Annotation([tag |-> "parameter-value", name |-> "name",
                 witness |-> WString(id)], 2, 4, <<2>>) >>

\* C22: default(id, parameterName) returns a value only for an id whose
\* entry was received less than 5 minutes ago, and then the stored value of
\* the parameter; for an id that is absent, pending or expired it returns a
\* false value; and maybeFetchDefaultValues, called with the caret outside
\* the value, fetches an id whose entry has expired.
C22_InvalidationByTime ==
  /\ (call # <<>> /\ call[1].name = "default") =>
       LET id == call[1].id
       IN IF Unexpired(defaultsCache, id, clock)
          THEN /\ call[1].parameterName \in DOMAIN defaultsCache[id].value
                    => call[1].value =
                         <<defaultsCache[id].value[call[1].parameterName]>>
               /\ call[1].parameterName \notin DOMAIN defaultsCache[id].value
                    => call[1].value = <<>>
          ELSE call[1].value = <<>>
  /\ \A id \in Ids :
       (/\ id \in DOMAIN defaultsCache
        /\ "received" \in DOMAIN defaultsCache[id]
        /\ ~Unexpired(defaultsCache, id, clock))
         => ToFetch(defaultsCache, clock, ROCKET_GRAMMAR, Editing(id), 5)
              = <<id>>

\* default has been called for an id whose value was received exactly 5
\* minutes ago and holds the parameter asked for: it returned a false value.
C22_Witness ==
  /\ call # <<>>
  /\ call[1].name = "default"
  /\ call[1].id \in DOMAIN defaultsCache
  /\ "received" \in DOMAIN defaultsCache[call[1].id]
  /\ clock - defaultsCache[call[1].id].received = 300000
  /\ call[1].parameterName \in DOMAIN defaultsCache[call[1].id].value
  /\ call[1].value = <<>>

(***************************************************************************)
(* sendCommand                                                             *)
(***************************************************************************)

\* The calls of handlers for the i-th request.
HandlerCalls(i) == {k \in 1..Len(handled) : handled[k].request = i}

\* C23: no handler is called for a request that is not complete (readyState
\* below 4); for a complete request exactly one handler has been called, the
\* success handler of its sendCommand call if the status is below 400 and
\* otherwise the failure handler, which alone is given a retry function; a
\* request made by a retry function has the command, the url and the
\* handlers of the failed request it retries; and there are as many such
\* requests as calls of retry functions.
C23_SendCommand ==
  /\ \A i \in 1..Len(xhrs) :
       IF xhrs[i].readyState < 4
       THEN HandlerCalls(i) = {}
       ELSE /\ Cardinality(HandlerCalls(i)) = 1
            /\ \A k \in HandlerCalls(i) :
                 IF xhrs[i].status < 400
                 THEN handled[k].handler = xhrs[i].success /\ ~handled[k].retry
                 ELSE handled[k].handler = xhrs[i].failure /\ handled[k].retry
  /\ \A i \in 1..Len(xhrs) :
       xhrs[i].retryOf # 0 =>
         LET failed == xhrs[xhrs[i].retryOf]
         IN /\ failed.readyState = 4
            /\ failed.status >= 400
            /\ xhrs[i].command = failed.command
            /\ xhrs[i].url = failed.url
            /\ xhrs[i].failure = failed.failure
            /\ xhrs[i].success = failed.success
  /\ Cardinality({i \in 1..Len(xhrs) : xhrs[i].retryOf # 0}) = retried

\* A command failed with status 400, its retry function was called, and the
\* second request succeeded with status 399: the failure handler was called
\* once for the first and the success handler once for the second.
C23_Witness ==
  /\ Len(xhrs) = 2
  /\ xhrs[1].readyState = 4
  /\ xhrs[1].status = 400
  /\ xhrs[2].retryOf = 1
  /\ xhrs[2].readyState = 4
  /\ xhrs[2].status = 399
  /\ handled = << [handler |-> xhrs[1].failure, retry |-> TRUE, request |-> 1],
                  [handler |-> xhrs[1].success, retry |-> FALSE,
                   request |-> 2] >>

(***************************************************************************)
(* mergeFailures                                                           *)
(***************************************************************************)

\* The ends of the failures that are present.
PresentEnds ==
  {f[1].end : f \in {g \in {failure1, failure2} : g # None}}

\* A list holds the objects of two lists, each once.
UnionOf(list, list1, list2) ==
  /\ Range(list) = Range(list1) \cup Range(list2)
  /\ \A i, j \in 1..Len(list) : i # j => list[i] # list[j]

\* C24: mergeFailures(f1, f2) returns the other failure if one is absent;
\* the failure with the greater end, unchanged, if the ends differ; and for
\* equal ends a Failure with that end, the union of both lists of
\* annotations, normalizeCompletions of the concatenated completions and
\* the disjunction of both pauses.  The end of the result is the greatest
\* end of the failures present.
C24_MergeFailures ==
  merged # <<>> =>
    LET f1 == failure1
        f2 == failure2
        f == merged[1]
    IN /\ f1 = None => f = f2
       /\ f2 = None => f = f1
       /\ (f1 # None /\ f2 # None /\ f1[1].end > f2[1].end) => f = f1
       /\ (f1 # None /\ f2 # None /\ f1[1].end < f2[1].end) => f = f2
       /\ (f1 # None /\ f2 # None /\ f1[1].end = f2[1].end) =>
            /\ f # None
            /\ f[1].end = f1[1].end
            /\ UnionOf(f[1].annotations, f1[1].annotations, f2[1].annotations)
            /\ f[1].completions =
                 normalizeCompletions(f1[1].completions \o f2[1].completions)
            /\ f[1].pause = (f1[1].pause \/ f2[1].pause)
       /\ (f = None) = (PresentEnds = {})
       /\ f # None => \A e \in PresentEnds : f[1].end >= e

\* Two failures with the same end were merged; they share one annotation
\* object, only the first pauses, and their completions overlap.
C24_Witness ==
  /\ failure1 =
       Some(Failure(<<Help1, Help2>>, << <<"a", "b">>, <<"a">> >>, 1, TRUE))
  /\ failure2 =
       Some(Failure(<<Help2>>, << <<"b">>, <<"a">> >>, 1, FALSE))
  /\ merged =
       << Some(Failure(<<Help1, Help2>>, << <<"a">>, <<"b">> >>, 1, TRUE)) >>

(***************************************************************************)
(* parseSeparated                                                          *)
(***************************************************************************)

\* The element and the separator of parseSeparated(mergeWitnesses, element,
\* separator), and the constants each matches.
SeparatedElements(p) == Range(ElementConstants(p.parser.parser2.parser1))

SeparatedSeparators(p) ==
  Range(ElementConstants(p.parser.parser2.chain.parser.parser2.parser1))

\* The lists of elements that a text of the form element (separator
\* element)* consists of.
RECURSIVE ElementLists(_, _, _)
ElementLists(text, elements, separators) ==
  {<<e>> : e \in {x \in elements : x = text}}
  \cup
  UNION {
    {<<es[1]>> \o rest :
       rest \in ElementLists(Slice(text, Len(es[1] \o es[2])), elements,
                             separators)} :
      es \in {x \in elements \X separators :
                StartsWith(text, x[1] \o x[2]) /\ Len(x[1] \o x[2]) > 0}}

\* The same, with the empty list for the empty text.
SeparatedLists(text, elements, separators) ==
  (IF text = <<>> THEN {<<>>} ELSE {})
  \cup ElementLists(text, elements, separators)

\* The text a success that ends at a position stands for.
TextTo(end) == SubSeq(input, start.end + 1, end)

\* The witnesses of the successes that end at a position.
WitnessesAt(end) ==
  {result.successes[k].witness :
     k \in {j \in 1..Len(result.successes) : result.successes[j].end = end}}

\* A text that is element (separator element)* followed by a separator.
EndsWithSeparator(text, elements, separators) ==
  \E s \in separators :
    /\ Len(s) <= Len(text)
    /\ SubSeq(text, Len(text) - Len(s) + 1, Len(text)) = s
    /\ ElementLists(SubSeq(text, 1, Len(text) - Len(s)), elements,
                    separators) # {}

\* The successes are those of the texts of the form element (separator
\* element)* and of the empty text, and the witness of each is
\* mergeWitnesses of the list of the elements' witnesses.
ElementsOnly ==
  \A end \in start.end..Len(input) :
    WitnessesAt(end) =
      {Transform(parser.transform,
                 WArray([i \in 1..Len(list) |-> WString(list[i])])) :
         list \in SeparatedLists(TextTo(end), SeparatedElements(parser),
                                 SeparatedSeparators(parser))}

\* C25, as stated: a success ends at e if and only if the text up to e is
\* empty or element (separator element)*, with mergeWitnesses of the element
\* witnesses as its witness, and no success ends immediately after a
\* separator.
C25_NoSuccessAfterSeparator ==
  /\ ElementsOnly
  /\ \A k \in 1..Len(result.successes) :
       ~EndsWithSeparator(TextTo(result.successes[k].end),
                          SeparatedElements(parser),
                          SeparatedSeparators(parser))

\* C25, amended: a success ends at e if and only if the text up to e is
\* empty or element (separator element)*, with mergeWitnesses of the element
\* witnesses as its witness; so a text that ends with a separator is
\* accepted only where it also reads as ending with an element, and when the
\* whole input ends with a separator and does not read so, no success ends
\* there and a failure at the end of the input asks for an element.
C25_Separated ==
  /\ ElementsOnly
  /\ (/\ EndsWithSeparator(Text, SeparatedElements(parser),
                           SeparatedSeparators(parser))
      /\ ElementLists(Text, SeparatedElements(parser),
                      SeparatedSeparators(parser)) = {})
       => /\ WitnessesAt(Len(input)) = {}
          /\ result.failure # None
          /\ result.failure[1].end = Len(input)
          /\ \E i \in 1..Len(result.failure[1].completions) :
               result.failure[1].completions[i] \in SeparatedElements(parser)

\* separated(join, choice("a", "ab"), ",") on "a,a,": the success that
\* reaches furthest ends at 3 with the witness "aa", and the failure at 4
\* asks for an element.
C25_Witness ==
  /\ parser.transform = "join"
  /\ SeparatedElements(parser) = {<<"a">>, <<"a", "b">>}
  /\ input = <<"a", ",", "a", ",">>
  /\ start.end = 0
  /\ WitnessesAt(3) = {WString(<<"a", "a">>)}
  /\ WitnessesAt(4) = {}
  /\ result.failure # None
  /\ result.failure[1].end = 4
  /\ result.failure[1].completions = << <<"a">> >>

(***************************************************************************)
(* The recursion of parseStar                                              *)
(***************************************************************************)

\* Every success of the repeated parser consumes at least one character,
\* from every position of every text that can be typed.
Consuming ==
  \A n \in 0..MaxUnfoldInput : \A text \in [1..n -> alphabet] :
    \A position \in 0..n :
      \A s \in Range(Parse(Repeated, text,
                           Success(<<>>, Context, position, WNull),
                           <<>>).successes) :
        s.end > position

\* C26: when every success of the repeated parser consumes at least one
\* character, an invocation of parseStar's parser has at most (remaining
\* input length + 1) levels of parseKleene that have not returned, and it
\* returns; the parser as built holds the recursive use of parseKleene as a
\* function that is not yet called.
C26_StarTerminates ==
  /\ [](Consuming =>
          /\ Len(stack) <= Len(input) - start.end + 1
          /\ parser.parser.parser2.chain.parser.type = "lazyKleene")
  /\ ((Consuming /\ stack # <<>>) ~> (stack = <<>>))

\* star(join, constant("a")) on "aaa" from the beginning: four levels have
\* not returned, the innermost at the end of the input.
C26_Witness ==
  /\ Consuming
  /\ input = <<"a", "a", "a">>
  /\ start.end = 0
  /\ Len(stack) = 4
  /\ stack[4].success.end = 3
  /\ stack[4].successes1 = <<>>

(***************************************************************************)
(* insertCharacter keeps the text viable                                   *)
(***************************************************************************)

\* The parse of a text has a success or a failure that ends at or after its
\* end.
Viable(text) ==
  \/ \E k \in 1..Len(parseCommandText(text).successes) :
       parseCommandText(text).successes[k].end >= Len(text)
  \/ /\ parseCommandText(text).failure # None
     /\ parseCommandText(text).failure[1].end >= Len(text)

\* C27: after insertCharacter operations from the empty command the text
\* before the caret is viable and nothing is after the caret; the last
\* operation appended the key if that text is viable, otherwise the key in
\* the other case if that text is viable, and otherwise left the text as it
\* was.
C27_ViablePrefix ==
  /\ Viable(before)
  /\ after = <<>>
  /\ event.key # "" =>
       before = IF Viable(event.before \o <<event.key>>)
                THEN event.before \o <<event.key>>
                ELSE IF Viable(event.before \o <<toOtherCase(event.key)>>)
                THEN event.before \o <<toOtherCase(event.key)>>
                ELSE event.before

\* "g" typed to a command named "G" was inserted as "G"; then "O" and "o"
\* are both refused and the text stays "G".
C27_Witness ==
  /\ toOtherCase("g") = "G"
  /\ ~Viable(<<"g">>)
  /\ before = <<"G">>
  /\ event.key = "O"
  /\ event.before = <<"G">>
  /\ ~Viable(<<"G", "O">>)
  /\ ~Viable(<<"G", "o">>)

(***************************************************************************)
(* Annotations of a failure                                                *)
(***************************************************************************)

\* C28: in the Failure returned by a parser made of parseSequence or
\* parseChain, annotate and parseWithCompletions or parseMaybe, no Annotation
\* object occurs twice in failure.annotations.
C28_NoDuplicateAnnotations ==
  \A i, j \in 1..Len(FailureAnnotations(result.failure)) :
    i # j => FailureAnnotations(result.failure)[i]
               # FailureAnnotations(result.failure)[j]

====
